---- MODULE Spec2Model ----
(***************************************************************************)
(* The TransAct front end: the AST builder (ast_builder.rs), the semantic  *)
(* analyzer and the type inferrer (semantics_analysis.rs) and the order in *)
(* which the driver (main.rs) runs them.  The parse tree handed to         *)
(* build_program is the                                                    *)
(* input; the arenas of the Program are sequences and an arena id is the   *)
(* index of the element (0 stands for None).                               *)
(***************************************************************************)
EXTENDS Integers, Sequences, FiniteSets, TLC

VARIABLES
    pc,             \* the step of the pipeline that runs next
    source,         \* the parse tree (pest Pair of Rule::program)
    builder,        \* AstBuilder.program
    build_errors,   \* the local `errors` of build_program
    item,           \* position of the running pass of build_program
    build_result,   \* "none", "Ok" or "Err": what build_program returned
    program,        \* the Program handed on by build_program
    resolve_errors, \* the error list of name resolution
    analyzer,       \* the SemanticAnalyzer struct
    fi, hi, si,     \* positions of the loops of check_functions / check_function / check_hop_block
    result,         \* "none", "Ok" or "Err": what analyze returned
    history,        \* one entry for every call of analyze_program: the Program it got and what it returned
    inference,      \* what the runs of TypeInferrer::infer_types did
    calls,          \* how many more times the caller will call the analysis on this Program
    sc_graph,       \* the SCGraph output_scgraph builds
    output,         \* what format_scgraph_output reports: the statistics and the mixed cycles
    pending,        \* the parse trees the caller will hand to build_program of this AstBuilder later
    returned        \* one entry for every call of build_program: the parse tree it got and what it returned

vars == <<pc, source, builder, build_errors, item, build_result, program,
          resolve_errors, analyzer, fi, hi, si, result, history, inference, calls,
          sc_graph, output, pending, returned>>

(***************************************************************************)
(* Small helpers.                                                          *)
(***************************************************************************)
None == 0
NoType == "None"
TypeNames == {"Int", "Float", "String", "Bool"}

\* HashMap::insert: an existing key is overwritten.
Put(m, k, v) == [y \in (DOMAIN m) \cup {k} |-> IF y = k THEN v ELSE m[y]]
\* HashMap::get(...).copied(): 0 when the key is absent.
Get(m, k) == IF k \in DOMAIN m THEN m[k] ELSE None

Range(s) == {s[i] : i \in 1..Len(s)}

\* x is evaluated before e.  An operator's argument is otherwise evaluated where
\* it is first used, which nests the evaluation of a long chain of arena updates.
Strict(x, e) == IF x = x THEN e ELSE e

\* `let v = x; F(v)`: x is evaluated once, whatever the number of uses of v.
Bind(x, F(_)) == CHOOSE y \in {F(v) : v \in {x}} : TRUE

RECURSIVE SeqsUpTo(_, _)
\* All sequences over S of length at most n.
SeqsUpTo(S, n) ==
    IF n = 0 THEN {<<>>}
    ELSE LET shorter == SeqsUpTo(S, n - 1)
         IN  shorter \cup {Append(q, x) : q \in {r \in shorter : Len(r) = n - 1}, x \in S}

(***************************************************************************)
(* The parse tree (grammar of spec section 4.1).  Every node of one sort   *)
(* has the same record shape; unused fields keep their default.            *)
(***************************************************************************)
PExprBase == [kind |-> "", op |-> "", name |-> "", pk_fields |-> <<>>, kids |-> <<>>, field |-> ""]
PLit(k) == [PExprBase EXCEPT !.kind = k]
PIdent(n) == [PExprBase EXCEPT !.kind = "Ident", !.name = n]
PUnary(o, e) == [PExprBase EXCEPT !.kind = "UnaryOp", !.op = o, !.kids = <<e>>]
PBinary(o, l, r) == [PExprBase EXCEPT !.kind = "BinaryOp", !.op = o, !.kids = <<l, r>>]
\* table_field_access: T[pk1 = e1, ...].field
PAccess(t, pkf, pke, f) ==
    [PExprBase EXCEPT !.kind = "TableFieldAccess", !.name = t, !.pk_fields = pkf,
                      !.kids = pke, !.field = f]

PStmtBase == [kind |-> "", ty |-> NoType, name |-> "", pk_fields |-> <<>>, pk_exprs |-> <<>>,
              fields |-> <<>>, exprs |-> <<>>, a |-> <<>>, b |-> <<>>, has_else |-> FALSE]
PVarDecl(t, n, e) == [PStmtBase EXCEPT !.kind = "VarDecl", !.ty = t, !.name = n, !.exprs = <<e>>]
PVarAssign(n, e) == [PStmtBase EXCEPT !.kind = "VarAssignment", !.name = n, !.exprs = <<e>>]
PAssign(t, pkf, pke, f, e) ==
    [PStmtBase EXCEPT !.kind = "Assignment", !.name = t, !.pk_fields = pkf, !.pk_exprs = pke,
                      !.fields = <<f>>, !.exprs = <<e>>]
PMulti(t, pkf, pke, fs, es) ==
    [PStmtBase EXCEPT !.kind = "MultiAssignment", !.name = t, !.pk_fields = pkf,
                      !.pk_exprs = pke, !.fields = fs, !.exprs = es]
PIf(c, th) == [PStmtBase EXCEPT !.kind = "IfStmt", !.exprs = <<c>>, !.a = th]
PIfElse(c, th, el) ==
    [PStmtBase EXCEPT !.kind = "IfStmt", !.exprs = <<c>>, !.a = th, !.b = el, !.has_else = TRUE]
PWhile(c, body) == [PStmtBase EXCEPT !.kind = "WhileStmt", !.exprs = <<c>>, !.a = body]
PReturn == [PStmtBase EXCEPT !.kind = "Return"]
PReturnValue(e) == [PStmtBase EXCEPT !.kind = "Return", !.exprs = <<e>>]
PSimple(k) == [PStmtBase EXCEPT !.kind = k]   \* abort, break, continue, ;

PField(t, n, prim) == [ty |-> t, name |-> n, primary |-> prim]
PTable(n, node, fs) == [name |-> n, node |-> node, fields |-> fs]
PParam(t, n) == [ty |-> t, name |-> n]
PHop(node, ss) == [node |-> node, stmts |-> ss]
PFunction(ret, n, ps, hs) == [ret |-> ret, name |-> n, params |-> ps, hops |-> hs]
PProgram(ns, ts, fs) == [nodes |-> ns, tables |-> ts, functions |-> fs]

(***************************************************************************)
(* Program::new and the arena elements.                                    *)
(***************************************************************************)
Program_new ==
    [nodes |-> <<>>, node_map |-> <<>>, root_nodes |-> <<>>,
     tables |-> <<>>, table_map |-> <<>>, root_tables |-> <<>>,
     fields |-> <<>>,
     functions |-> <<>>, function_map |-> <<>>, root_functions |-> <<>>,
     hops |-> <<>>, parameters |-> <<>>, statements |-> <<>>, expressions |-> <<>>,
     variables |-> <<>>, scopes |-> <<>>, resolutions |-> <<>>, var_types |-> <<>>]

\* A Span is the source range of the pair a construct was built from; two
\* constructs of one sort never share it.  It is kept as the sort and the
\* position of the construct.
SpanOf(k, i) == [kind |-> k, at |-> i]

ExprBase ==
    [kind |-> "", op |-> "", name |-> "", expr |-> None, left |-> None, right |-> None,
     table_name |-> "", pk_fields |-> <<>>, pk_exprs |-> <<>>, field_name |-> "",
     resolved_table |-> None, resolved_pk_fields |-> <<>>, resolved_field |-> None,
     resolved_type |-> NoType, span |-> SpanOf("", 0)]

StmtBase ==
    [kind |-> "", var_type |-> NoType, var_name |-> "", init_value |-> None, rhs |-> None,
     resolved_var |-> None, table_name |-> "", pk_fields |-> <<>>, pk_exprs |-> <<>>,
     field_name |-> "", assignments |-> <<>>, resolved_table |-> None,
     resolved_pk_fields |-> <<>>, resolved_field |-> None, condition |-> None,
     then_branch |-> <<>>, else_branch |-> <<>>, has_else |-> FALSE, body |-> <<>>,
     has_value |-> FALSE, value |-> None, span |-> SpanOf("", 0)]

\* vec![], a variant that forgets the length.
EmptyVec(n) == <<>>

\* vec![None; n]
NoneVec(n) == [i \in 1..n |-> None]

\* Arena::alloc on the expressions / statements arena; the new id is returned.
alloc_expression(p, node) ==
    LET id == Len(p.expressions) + 1
    IN  [program |-> [p EXCEPT !.expressions = Append(@, [node EXCEPT !.span = SpanOf("expression", id)])],
         id |-> id]

alloc_statement(p, node) ==
    LET id == Len(p.statements) + 1
    IN  [program |-> [p EXCEPT !.statements = Append(@, [node EXCEPT !.span = SpanOf("statement", id)])],
         id |-> id]

(***************************************************************************)
(* AstBuilder: expressions.                                                *)
(***************************************************************************)
\* parse_type_name / parse_ret_type: the text of a `type` or `ret_type` pair.
parse_type_name(text) ==
    CASE text = "int" -> "Int"
      [] text = "float" -> "Float"
      [] text = "string" -> "String"
      [] text = "bool" -> "Bool"

parse_ret_type(text) == IF text = "void" THEN "Void" ELSE parse_type_name(text)

RECURSIVE build_expression(_, _)
RECURSIVE build_expressions(_, _)

\* build_primary_key_list: the names as written and the ids of the built expressions.
build_primary_key_list(p, names, exprs) ==
    Bind(build_expressions(p, exprs),
         LAMBDA r : [program |-> r.program, pk_fields |-> names, pk_exprs |-> r.ids])

build_table_field_access(p, e) ==
    Bind(build_primary_key_list(p, e.pk_fields, e.kids),
         LAMBDA pk :
            alloc_expression(pk.program,
                [ExprBase EXCEPT !.kind = "TableFieldAccess", !.table_name = e.name,
                                 !.pk_fields = pk.pk_fields, !.pk_exprs = pk.pk_exprs,
                                 !.field_name = e.field, !.resolved_table = None,
                                 !.resolved_pk_fields = NoneVec(Len(pk.pk_fields)),
                                 !.resolved_field = None, !.resolved_type = NoType]))

\* The match of build_unary on the operator text.
unary_op(text) ==
    CASE text = "!" -> "Not"
      [] text = "-" -> "Neg"

build_unary(p, e) ==
    Bind(build_expression(p, e.kids[1]),
         LAMBDA operand :
            alloc_expression(operand.program,
                [ExprBase EXCEPT !.kind = "UnaryOp", !.op = unary_op(e.op),
                                 !.expr = operand.id, !.resolved_type = NoType]))

\* The matches of build_equality, build_comparison, build_addition and
\* build_multiplication on the operator text; logic_or and logic_and pairs get
\* the operator of their rule (build_logic_or, build_logic_and).
binary_op(text) ==
    CASE text = "==" -> "Eq"
      [] text = "!=" -> "Neq"
      [] text = "<" -> "Lt"
      [] text = "<=" -> "Lte"
      [] text = ">" -> "Gt"
      [] text = ">=" -> "Gte"
      [] text = "+" -> "Add"
      [] text = "-" -> "Sub"
      [] text = "*" -> "Mul"
      [] text = "/" -> "Div"
      [] text = "||" -> "Or"
      [] text = "&&" -> "And"

\* build_equality, build_comparison, build_addition, build_multiplication, build_binary_expr
build_binary_expr(p, e) ==
    Bind(build_expression(p, e.kids[1]),
         LAMBDA left :
            Bind(build_expression(left.program, e.kids[2]),
                 LAMBDA right :
                    alloc_expression(right.program,
                        [ExprBase EXCEPT !.kind = "BinaryOp", !.op = binary_op(e.op),
                                         !.left = left.id, !.right = right.id,
                                         !.resolved_type = NoType])))

build_expression(p, e) ==
    CASE e.kind = "TableFieldAccess" -> build_table_field_access(p, e)
      [] e.kind = "UnaryOp" -> build_unary(p, e)
      [] e.kind = "BinaryOp" -> build_binary_expr(p, e)
      [] e.kind = "Ident" -> alloc_expression(p, [ExprBase EXCEPT !.kind = "Ident", !.name = e.name])
      [] OTHER -> alloc_expression(p, [ExprBase EXCEPT !.kind = e.kind])

build_expressions(p, es) ==
    IF es = <<>> THEN [program |-> p, ids |-> <<>>]
    ELSE Bind(build_expression(p, Head(es)),
              LAMBDA first :
                 Bind(build_expressions(first.program, Tail(es)),
                      LAMBDA rest : [program |-> rest.program, ids |-> <<first.id>> \o rest.ids]))

(***************************************************************************)
(* AstBuilder: statements.                                                 *)
(***************************************************************************)
RECURSIVE build_statement(_, _)
RECURSIVE build_block(_, _)

build_var_decl_statement(p, s) ==
    Bind(build_expression(p, s.exprs[1]),
         LAMBDA init :
            [program |-> init.program,
             node |-> [StmtBase EXCEPT !.kind = "VarDecl", !.var_type = parse_type_name(s.ty),
                                       !.var_name = s.name, !.init_value = init.id]])

build_var_assignment_statement(p, s) ==
    Bind(build_expression(p, s.exprs[1]),
         LAMBDA rhs :
            [program |-> rhs.program,
             node |-> [StmtBase EXCEPT !.kind = "VarAssignment", !.var_name = s.name,
                                       !.rhs = rhs.id, !.resolved_var = None]])

build_assignment_statement(p, s) ==
    Bind(build_primary_key_list(p, s.pk_fields, s.pk_exprs),
         LAMBDA pk :
            Bind(build_expression(pk.program, s.exprs[1]),
                 LAMBDA rhs :
                    [program |-> rhs.program,
                     node |-> [StmtBase EXCEPT !.kind = "Assignment", !.table_name = s.name,
                                               !.pk_fields = pk.pk_fields,
                                               !.pk_exprs = pk.pk_exprs,
                                               !.field_name = s.fields[1], !.rhs = rhs.id,
                                               !.resolved_table = None,
                                               !.resolved_pk_fields = NoneVec(Len(pk.pk_fields)),
                                               !.resolved_field = None]]))

build_multi_assignment_list(p, names, exprs) ==
    Bind(build_expressions(p, exprs),
         LAMBDA r :
            [program |-> r.program,
             assignments |-> [i \in 1..Len(names) |->
                                [field_name |-> names[i], rhs |-> r.ids[i],
                                 resolved_field |-> None]]])

build_multi_assignment_statement(p, s) ==
    Bind(build_primary_key_list(p, s.pk_fields, s.pk_exprs),
         LAMBDA pk :
            Bind(build_multi_assignment_list(pk.program, s.fields, s.exprs),
                 LAMBDA list :
                    [program |-> list.program,
                     node |-> [StmtBase EXCEPT !.kind = "MultiAssignment",
                                               !.table_name = s.name,
                                               !.pk_fields = pk.pk_fields,
                                               !.pk_exprs = pk.pk_exprs,
                                               !.assignments = list.assignments,
                                               !.resolved_table = None,
                                               !.resolved_pk_fields = NoneVec(Len(pk.pk_fields))]]))

build_if_statement(p, s) ==
    Bind(build_expression(p, s.exprs[1]),
         LAMBDA condition :
            Bind(build_block(condition.program, s.a),
                 LAMBDA then_branch :
                    Bind(IF s.has_else THEN build_block(then_branch.program, s.b)
                         ELSE [program |-> then_branch.program, ids |-> <<>>],
                         LAMBDA else_branch :
                            [program |-> else_branch.program,
                             node |-> [StmtBase EXCEPT !.kind = "IfStmt",
                                                       !.condition = condition.id,
                                                       !.then_branch = then_branch.ids,
                                                       !.has_else = s.has_else,
                                                       !.else_branch = else_branch.ids]])))

build_while_statement(p, s) ==
    Bind(build_expression(p, s.exprs[1]),
         LAMBDA condition :
            Bind(build_block(condition.program, s.a),
                 LAMBDA body :
                    [program |-> body.program,
                     node |-> [StmtBase EXCEPT !.kind = "WhileStmt",
                                               !.condition = condition.id,
                                               !.body = body.ids]]))

build_return_statement(p, s) ==
    IF s.exprs = <<>>
    THEN [program |-> p, node |-> [StmtBase EXCEPT !.kind = "Return", !.has_value = FALSE]]
    ELSE Bind(build_expression(p, s.exprs[1]),
              LAMBDA value :
                 [program |-> value.program,
                  node |-> [StmtBase EXCEPT !.kind = "Return", !.has_value = TRUE,
                                            !.value = value.id]])

build_statement(p, s) ==
    Bind(CASE s.kind = "VarDecl" -> build_var_decl_statement(p, s)
           [] s.kind = "VarAssignment" -> build_var_assignment_statement(p, s)
           [] s.kind = "MultiAssignment" -> build_multi_assignment_statement(p, s)
           [] s.kind = "Assignment" -> build_assignment_statement(p, s)
           [] s.kind = "IfStmt" -> build_if_statement(p, s)
           [] s.kind = "WhileStmt" -> build_while_statement(p, s)
           [] s.kind = "Return" -> build_return_statement(p, s)
           [] OTHER -> [program |-> p, node |-> [StmtBase EXCEPT !.kind = s.kind]],
         LAMBDA built : alloc_statement(built.program, built.node))

build_block(p, ss) ==
    IF ss = <<>> THEN [program |-> p, ids |-> <<>>]
    ELSE Bind(build_statement(p, Head(ss)),
              LAMBDA first :
                 Bind(build_block(first.program, Tail(ss)),
                      LAMBDA rest : [program |-> rest.program, ids |-> <<first.id>> \o rest.ids]))

(***************************************************************************)
(* AstBuilder: declarations.                                               *)
(***************************************************************************)
RECURSIVE build_node_list(_, _)
build_node_list(p, names) ==
    IF names = <<>> THEN p
    ELSE LET name == Head(names)
             node_id == Len(p.nodes) + 1
             node == [name |-> name, span |-> SpanOf("node", node_id)]
         IN  build_node_list(
                 [p EXCEPT !.nodes = Append(@, node),
                           !.node_map = Put(@, name, node_id),
                           !.root_nodes = Append(@, node_id)],
                 Tail(names))

build_nodes_block(p, names) == build_node_list(p, names)

RECURSIVE build_field_declarations(_, _)
\* The loop of build_table_declaration over build_field_declaration: every
\* field is allocated, the primary ones are noted.
build_field_declarations(p, fs) ==
    IF fs = <<>> THEN [program |-> p, field_ids |-> <<>>, primary_key_ids |-> <<>>]
    ELSE LET f == Head(fs)
             field_id == Len(p.fields) + 1
             field == [field_type |-> parse_type_name(f.ty), field_name |-> f.name,
                       is_primary |-> f.primary, span |-> SpanOf("field", field_id)]
         IN  Bind(build_field_declarations([p EXCEPT !.fields = Append(@, field)], Tail(fs)),
                  LAMBDA rest :
                     [program |-> rest.program,
                      field_ids |-> <<field_id>> \o rest.field_ids,
                      primary_key_ids |-> (IF f.primary THEN <<field_id>> ELSE <<>>)
                                          \o rest.primary_key_ids])

\* The table without a primary key is refused after its fields were allocated.
no_primary_key(primary_key_ids) == primary_key_ids = <<>>

build_table_declaration(p, decl, at) ==
    LET span == SpanOf("table_declaration", at)
        node_id == Get(p.node_map, decl.node)
    IN  IF node_id = None
        THEN [program |-> p,
              errors |-> <<[error |-> "UndeclaredNode", name |-> decl.node, span |-> span]>>]
        ELSE Bind(build_field_declarations(p, decl.fields),
                  LAMBDA built :
                     IF no_primary_key(built.primary_key_ids)
                     THEN [program |-> built.program,
                           errors |-> <<[error |-> "ParseError",
                                         message |-> [text |-> "must have at least one primary key",
                                                      table |-> decl.name, required |-> 0,
                                                      provided |-> 0],
                                         span |-> span]>>]
                     ELSE [program |->
                             [built.program EXCEPT
                                 !.tables = Append(@, [name |-> decl.name, node |-> node_id,
                                                       fields |-> built.field_ids,
                                                       primary_keys |-> built.primary_key_ids,
                                                       span |-> span]),
                                 !.table_map = Put(@, decl.name, Len(built.program.tables) + 1),
                                 !.root_tables = Append(@, Len(built.program.tables) + 1)],
                           errors |-> <<>>])

RECURSIVE build_parameter_list(_, _)
build_parameter_list(p, ps) ==
    IF ps = <<>> THEN [program |-> p, ids |-> <<>>]
    ELSE LET param_id == Len(p.parameters) + 1
             parameter == [param_type |-> parse_type_name(Head(ps).ty),
                           param_name |-> Head(ps).name, span |-> SpanOf("parameter", param_id)]
         IN  Bind(build_parameter_list([p EXCEPT !.parameters = Append(@, parameter)], Tail(ps)),
                  LAMBDA rest : [program |-> rest.program, ids |-> <<param_id>> \o rest.ids])

build_hop_block(p, h) ==
    Bind(build_block(p, h.stmts),
         LAMBDA block :
            [program |-> [block.program EXCEPT
                             !.hops = Append(@, [node_name |-> h.node, statements |-> block.ids,
                                                 span |-> SpanOf("hop", Len(block.program.hops) + 1),
                                                 resolved_node |-> None])],
             id |-> Len(block.program.hops) + 1])

RECURSIVE build_hop_blocks(_, _)
build_hop_blocks(p, hs) ==
    IF hs = <<>> THEN [program |-> p, ids |-> <<>>]
    ELSE Bind(build_hop_block(p, Head(hs)),
              LAMBDA first :
                 Bind(build_hop_blocks(first.program, Tail(hs)),
                      LAMBDA rest : [program |-> rest.program, ids |-> <<first.id>> \o rest.ids]))

build_function_declaration(p, decl) ==
    Bind(build_parameter_list(p, decl.params),
         LAMBDA params :
            Bind(build_hop_blocks(params.program, decl.hops),
                 LAMBDA hops :
                    [program |->
                        [hops.program EXCEPT
                            !.functions = Append(@, [return_type |-> parse_ret_type(decl.ret),
                                                     name |-> decl.name,
                                                     parameters |-> params.ids,
                                                     hops |-> hops.ids,
                                                     span |-> SpanOf("function",
                                                                     Len(hops.program.functions) + 1)]),
                            !.function_map = Put(@, decl.name, Len(hops.program.functions) + 1),
                            !.root_functions = Append(@, Len(hops.program.functions) + 1)],
                     errors |-> <<>>]))

(***************************************************************************)
(* build_program: its three passes, one declaration at a step.             *)
(***************************************************************************)
\* Where build_program goes on after pass `pass` has handled its item `i`.
after_item(pass, i) ==
    CASE pass = "tables" /\ i < Len(source.tables) -> <<"tables", i + 1>>
      [] pass = "tables" /\ source.functions # <<>> -> <<"functions", 1>>
      [] pass = "functions" /\ i < Len(source.functions) -> <<"functions", i + 1>>
      [] OTHER -> <<"return", 0>>

BuildNodesBlock ==
    /\ pc = "nodes"
    /\ builder' = build_nodes_block(builder, source.nodes)
    /\ pc' = IF source.tables # <<>> THEN "tables" ELSE after_item("tables", 0)[1]
    /\ item' = IF source.tables # <<>> THEN 1 ELSE after_item("tables", 0)[2]
    /\ UNCHANGED <<pending, returned, sc_graph, output, source, history, inference, calls, build_errors, build_result, program, resolve_errors,
                   analyzer, fi, hi, si, result>>

BuildTableDeclaration ==
    /\ pc = "tables"
    /\ LET r == build_table_declaration(builder, source.tables[item], item)
       IN  /\ builder' = r.program
           /\ build_errors' = build_errors \o r.errors
    /\ pc' = after_item("tables", item)[1]
    /\ item' = after_item("tables", item)[2]
    /\ UNCHANGED <<pending, returned, sc_graph, output, source, history, inference, calls, build_result, program, resolve_errors, analyzer, fi, hi, si, result>>

BuildFunctionDeclaration ==
    /\ pc = "functions"
    /\ LET r == build_function_declaration(builder, source.functions[item])
       IN  /\ builder' = r.program
           /\ build_errors' = build_errors \o r.errors
    /\ pc' = after_item("functions", item)[1]
    /\ item' = after_item("functions", item)[2]
    /\ UNCHANGED <<pending, returned, sc_graph, output, source, history, inference, calls, build_result, program, resolve_errors, analyzer, fi, hi, si, result>>

\* Results<Program>: Ok(program) or Err(errors).
Ok(p) == [result |-> "Ok", program |-> p]

Err(errors) == [result |-> "Err", errors |-> errors]

\* The end of build_program: Ok(mem::replace(&mut self.program, Program::new())) or Err(errors).
BuildProgramReturn ==
    /\ pc = "return"
    /\ IF build_errors = <<>>
       THEN /\ build_result' = "Ok"
            /\ program' = builder
            /\ builder' = Program_new
            /\ pc' = "built"
       ELSE /\ build_result' = "Err"
            /\ pc' = "build_failed"
            /\ UNCHANGED <<program, builder>>
    /\ returned' = Append(returned, [source |-> source,
                                     value |-> IF build_errors = <<>> THEN Ok(builder)
                                               ELSE Err(build_errors)])
    /\ UNCHANGED <<pending, sc_graph, output, source, history, inference, calls, build_errors, item, resolve_errors, analyzer, fi, hi, si, result>>

(***************************************************************************)
(* SemanticAnalyzer.  `a` is the analyzer struct; every check returns the  *)
(* struct it leaves behind.  The Program is read-only here.                *)
(***************************************************************************)
SemanticAnalyzer_new ==
    [errors |-> <<>>, current_function |-> None, current_hop |-> None,
     return_type |-> NoType, has_return |-> FALSE, current_node |-> None, in_loop |-> FALSE]

error_at(a, span, error) == [a EXCEPT !.errors = Append(@, error @@ [span |-> span])]

types_compatible(expected, actual) ==
    expected = actual \/ (expected = "Float" /\ actual = "Int")

\* A variant that takes Int alone for numeric.
IsInt(t) == t = "Int"

\* matches!(t, TypeName::Int | TypeName::Float)
IsNumeric(t) == t \in {"Int", "Float"}

InvalidBinaryOp(op, left, right) ==
    [error |-> "InvalidBinaryOp", op |-> op, left |-> left, right |-> right]

check_binary_op(a, op, left, right, span) ==
    CASE op \in {"Add", "Sub", "Mul", "Div"} ->
            IF IsNumeric(left) /\ IsNumeric(right)
            THEN [a |-> a, ty |-> IF left = "Float" \/ right = "Float" THEN "Float" ELSE "Int"]
            ELSE [a |-> error_at(a, span, InvalidBinaryOp(op, left, right)), ty |-> NoType]
      [] op \in {"Eq", "Neq"} ->
            IF types_compatible(left, right)
            THEN [a |-> a, ty |-> "Bool"]
            ELSE [a |-> error_at(a, span, InvalidBinaryOp(op, left, right)), ty |-> NoType]
      [] op \in {"Lt", "Lte", "Gt", "Gte"} ->
            IF IsNumeric(left) /\ IsNumeric(right)
            THEN [a |-> a, ty |-> "Bool"]
            ELSE [a |-> error_at(a, span, InvalidBinaryOp(op, left, right)), ty |-> NoType]
      [] op \in {"And", "Or"} ->
            IF left = "Bool" /\ right = "Bool"
            THEN [a |-> a, ty |-> "Bool"]
            ELSE [a |-> error_at(a, span, InvalidBinaryOp(op, left, right)), ty |-> NoType]

check_unary_op(a, op, operand_type, span) ==
    CASE op = "Neg" ->
            IF IsNumeric(operand_type)
            THEN [a |-> a, ty |-> operand_type]
            ELSE [a |-> error_at(a, span, [error |-> "InvalidUnaryOp", op |-> "negation",
                                           operand |-> operand_type]),
                  ty |-> NoType]
      [] op = "Not" ->
            IF operand_type = "Bool"
            THEN [a |-> a, ty |-> "Bool"]
            ELSE [a |-> error_at(a, span, [error |-> "InvalidUnaryOp", op |-> "logical not",
                                           operand |-> operand_type]),
                  ty |-> NoType]

CrossNodeAccess(table, current_node_id) ==
    [error |-> "CrossNodeAccess", table |-> table.name,
     table_node |-> program.nodes[table.node].name,
     current_node |-> program.nodes[current_node_id].name]

\* The cross-node test of check_assignment, check_multi_assignment and check_expression.
is_cross_node(a, table) == a.current_node # None /\ table.node # a.current_node

InvalidPrimaryKey(table, pk_field_id) ==
    [error |-> "InvalidPrimaryKey", table |-> table.name,
     column |-> program.fields[pk_field_id].field_name]

\* format!("Table {} requires {} primary key values, but {} were provided", ...)
PrimaryKeyCountError(table, provided) ==
    [error |-> "ParseError",
     message |-> [text |-> "requires primary key values", table |-> table.name,
                  required |-> Len(table.primary_keys), provided |-> provided]]

\* table.primary_keys.contains(pk_field_id)
is_primary_key(table, pk_field_id) == pk_field_id \in Range(table.primary_keys)

\* table.primary_keys.len() != resolved_pk_fields.len()
pk_count_mismatch(table, resolved_pk_fields) ==
    Len(table.primary_keys) # Len(resolved_pk_fields)

all_resolved(ids) == \A i \in 1..Len(ids) : ids[i] # None

RECURSIVE check_expression(_, _)
RECURSIVE check_expressions(_, _)
RECURSIVE validate_primary_keys(_, _, _, _, _, _)

\* `for pk_expr in pk_exprs { self.check_expression(*pk_expr); }`
check_expressions(a, ids) ==
    Strict(a,
    IF ids = <<>> THEN a
    ELSE check_expressions(check_expression(a, Head(ids)).a, Tail(ids)))

check_table_field_access(a, expr) ==
    LET a1 == check_expressions(a, expr.pk_exprs)
        table_obj == program.tables[expr.resolved_table]
    IN  IF expr.resolved_table = None
        THEN [a |-> error_at(a1, expr.span, [error |-> "UndeclaredTable", name |-> expr.table_name]),
              ty |-> NoType]
        ELSE IF is_cross_node(a1, table_obj)
        THEN [a |-> error_at(a1, expr.span, CrossNodeAccess(table_obj, a1.current_node)),
              ty |-> NoType]
        ELSE IF ~all_resolved(expr.resolved_pk_fields)
        THEN [a |-> a1, ty |-> NoType]
        ELSE IF \E i \in 1..Len(expr.resolved_pk_fields) :
                    ~is_primary_key(table_obj, expr.resolved_pk_fields[i])
        THEN LET first == CHOOSE i \in 1..Len(expr.resolved_pk_fields) :
                              /\ ~is_primary_key(table_obj, expr.resolved_pk_fields[i])
                              /\ \A j \in 1..(i - 1) :
                                     is_primary_key(table_obj, expr.resolved_pk_fields[j])
             IN  [a |-> error_at(a1, expr.span,
                                 InvalidPrimaryKey(table_obj, expr.resolved_pk_fields[first])),
                  ty |-> NoType]
        ELSE IF pk_count_mismatch(table_obj, expr.resolved_pk_fields)
        THEN [a |-> error_at(a1, expr.span,
                             PrimaryKeyCountError(table_obj, Len(expr.resolved_pk_fields))),
              ty |-> NoType]
        ELSE IF expr.resolved_field = None
        THEN [a |-> error_at(a1, expr.span, [error |-> "UndeclaredField",
                                             table |-> expr.table_name,
                                             field |-> expr.field_name]),
              ty |-> NoType]
        ELSE [a |-> a1, ty |-> program.fields[expr.resolved_field].field_type]

check_expression(a, expr_id) ==
    Strict(a,
    LET expr == program.expressions[expr_id]
    IN  CASE expr.kind = "Ident" ->
                IF expr_id \in DOMAIN program.resolutions
                THEN [a |-> a, ty |-> program.variables[program.resolutions[expr_id]].ty]
                ELSE [a |-> a, ty |-> NoType]
          [] expr.kind = "IntLit" -> [a |-> a, ty |-> "Int"]
          [] expr.kind = "FloatLit" -> [a |-> a, ty |-> "Float"]
          [] expr.kind = "StringLit" -> [a |-> a, ty |-> "String"]
          [] expr.kind = "BoolLit" -> [a |-> a, ty |-> "Bool"]
          [] expr.kind = "TableFieldAccess" -> check_table_field_access(a, expr)
          [] expr.kind = "UnaryOp" ->
                LET operand == check_expression(a, expr.expr)
                IN  IF operand.ty = NoType THEN operand
                    ELSE check_unary_op(operand.a, expr.op, operand.ty, expr.span)
          [] expr.kind = "BinaryOp" ->
                LET left == check_expression(a, expr.left)
                IN  IF left.ty = NoType THEN left
                    ELSE LET right == check_expression(left.a, expr.right)
                         IN  IF right.ty = NoType THEN right
                             ELSE check_binary_op(right.a, expr.op, left.ty, right.ty, expr.span))

\* The value checked against the declared type `expected`; a mismatch is
\* reported at `span` (check_var_decl, the right-hand sides, the key expressions).
check_against(a, expected, expr_id, span) ==
    LET e == check_expression(a, expr_id)
    IN  IF e.ty # NoType /\ ~types_compatible(expected, e.ty)
        THEN error_at(e.a, span, [error |-> "TypeMismatch", expected |-> expected, found |-> e.ty])
        ELSE e.a

\* The loop "Validate each primary key field" of check_assignment and
\* check_multi_assignment, from position i on: a.stop tells that the
\* statement returned from inside the loop.
validate_primary_keys(a, table, resolved_pk_fields, pk_exprs, span, i) ==
    IF i > Len(resolved_pk_fields) THEN [a |-> a, stop |-> FALSE]
    ELSE LET pk_field_id == resolved_pk_fields[i]
         IN  IF ~is_primary_key(table, pk_field_id)
             THEN [a |-> error_at(a, span, InvalidPrimaryKey(table, pk_field_id)), stop |-> TRUE]
             ELSE LET a1 == IF i <= Len(pk_exprs)
                            THEN check_against(a, program.fields[pk_field_id].field_type,
                                               pk_exprs[i], span)
                            ELSE a
                  IN  validate_primary_keys(a1, table, resolved_pk_fields, pk_exprs, span, i + 1)

\* A variant that goes on to the right-hand side after an unresolved table.
check_rhs_of_unresolved_table(a, assign, span) ==
    LET table == program.tables[assign.resolved_table]
    IN  IF assign.resolved_table = None
        THEN check_expression(
                 error_at(a, span, [error |-> "UndeclaredTable", name |-> assign.table_name]),
                 assign.rhs).a
        ELSE IF is_cross_node(a, table)
        THEN error_at(a, span, CrossNodeAccess(table, a.current_node))
        ELSE IF ~(all_resolved(assign.resolved_pk_fields) /\ assign.resolved_field # None)
        THEN a
        ELSE LET keys == validate_primary_keys(a, table, assign.resolved_pk_fields,
                                               assign.pk_exprs, span, 1)
             IN  IF keys.stop THEN keys.a
                 ELSE IF pk_count_mismatch(table, assign.resolved_pk_fields)
                 THEN error_at(keys.a, span,
                               PrimaryKeyCountError(table, Len(assign.resolved_pk_fields)))
                 ELSE check_against(keys.a, program.fields[assign.resolved_field].field_type,
                                    assign.rhs, span)

check_assignment(a, assign, span) ==
    LET table == program.tables[assign.resolved_table]
    IN  IF assign.resolved_table = None
        THEN error_at(a, span, [error |-> "UndeclaredTable", name |-> assign.table_name])
        ELSE IF is_cross_node(a, table)
        THEN error_at(a, span, CrossNodeAccess(table, a.current_node))
        ELSE IF ~(all_resolved(assign.resolved_pk_fields) /\ assign.resolved_field # None)
        THEN a
        ELSE LET keys == validate_primary_keys(a, table, assign.resolved_pk_fields,
                                               assign.pk_exprs, span, 1)
             IN  IF keys.stop THEN keys.a
                 ELSE IF pk_count_mismatch(table, assign.resolved_pk_fields)
                 THEN error_at(keys.a, span,
                               PrimaryKeyCountError(table, Len(assign.resolved_pk_fields)))
                 ELSE check_against(keys.a, program.fields[assign.resolved_field].field_type,
                                    assign.rhs, span)

RECURSIVE check_assignment_pairs(_, _, _)
\* The loop "Check each assignment field and RHS type" of check_multi_assignment.
check_assignment_pairs(a, assignments, span) ==
    IF assignments = <<>> THEN a
    ELSE LET assignment == Head(assignments)
             a1 == IF assignment.resolved_field # None
                   THEN check_against(a, program.fields[assignment.resolved_field].field_type,
                                      assignment.rhs, span)
                   ELSE a
         IN  check_assignment_pairs(a1, Tail(assignments), span)

check_multi_assignment(a, multi_assign, span) ==
    LET table == program.tables[multi_assign.resolved_table]
        all_assignment_fields_resolved ==
            \A i \in 1..Len(multi_assign.assignments) :
                multi_assign.assignments[i].resolved_field # None
    IN  IF multi_assign.resolved_table = None
        THEN error_at(a, span, [error |-> "UndeclaredTable", name |-> multi_assign.table_name])
        ELSE IF is_cross_node(a, table)
        THEN error_at(a, span, CrossNodeAccess(table, a.current_node))
        ELSE IF ~(all_resolved(multi_assign.resolved_pk_fields) /\ all_assignment_fields_resolved)
        THEN a
        ELSE LET keys == validate_primary_keys(a, table, multi_assign.resolved_pk_fields,
                                               multi_assign.pk_exprs, span, 1)
             IN  IF keys.stop THEN keys.a
                 ELSE IF pk_count_mismatch(table, multi_assign.resolved_pk_fields)
                 THEN error_at(keys.a, span,
                               PrimaryKeyCountError(table, Len(multi_assign.resolved_pk_fields)))
                 ELSE check_assignment_pairs(keys.a, multi_assign.assignments, span)

check_var_assignment(a, var_assign, span) == check_expression(a, var_assign.rhs).a

check_var_decl(a, var_decl, span) ==
    check_against(a, var_decl.var_type, var_decl.init_value, span)

\* A variant that accepts a return without a value in every function.
return_value_optional(a, ret_stmt, span) ==
    LET a1 == [a EXCEPT !.has_return = TRUE]
    IN  CASE a1.return_type = "Void" /\ ret_stmt.has_value ->
                error_at(a1, span, [error |-> "UnexpectedReturnValue"])
          [] a1.return_type \in TypeNames /\ ret_stmt.has_value ->
                check_against(a1, a1.return_type, ret_stmt.value, span)
          [] OTHER -> a1

check_return_statement(a, ret_stmt, span) ==
    LET a1 == [a EXCEPT !.has_return = TRUE]
    IN  CASE a1.return_type = "Void" /\ ret_stmt.has_value ->
                error_at(a1, span, [error |-> "UnexpectedReturnValue"])
          [] a1.return_type \in TypeNames /\ ret_stmt.has_value ->
                check_against(a1, a1.return_type, ret_stmt.value, span)
          [] a1.return_type \in TypeNames /\ ~ret_stmt.has_value ->
                error_at(a1, span, [error |-> "MissingReturnValue"])
          [] OTHER -> a1

\* A variant that refuses abort in every hop, the first included.
abort_refused_in_every_hop(a, span, hop_index, function_name) ==
    error_at(a, span, [error |-> "AbortNotInFirstHop", function |-> function_name,
                       hop_index |-> hop_index])

check_abort_statement(a, span, hop_index, function_name) ==
    IF hop_index # 0
    THEN error_at(a, span, [error |-> "AbortNotInFirstHop", function |-> function_name,
                            hop_index |-> hop_index])
    ELSE a

check_break_statement(a, span) ==
    IF ~a.in_loop THEN error_at(a, span, [error |-> "BreakOutsideLoop"]) ELSE a

check_continue_statement(a, span) ==
    IF ~a.in_loop THEN error_at(a, span, [error |-> "ContinueOutsideLoop"]) ELSE a

\* The condition of an if or a while.
check_condition(a, condition) ==
    LET c == check_expression(a, condition)
    IN  IF c.ty # NoType /\ c.ty # "Bool"
        THEN error_at(c.a, program.expressions[condition].span,
                      [error |-> "InvalidCondition", found |-> c.ty])
        ELSE c.a

RECURSIVE check_statement(_, _, _, _)
RECURSIVE check_statements(_, _, _, _)

check_statements(a, stmt_ids, hop_index, function_name) ==
    Strict(a,
    IF stmt_ids = <<>> THEN a
    ELSE check_statements(check_statement(a, Head(stmt_ids), hop_index, function_name),
                          Tail(stmt_ids), hop_index, function_name))

\* A variant that leaves the branches of an if with an invalid condition unchecked.
skip_branches_of_invalid_condition(a, if_stmt, span, hop_index, function_name) ==
    LET a1 == check_condition(a, if_stmt.condition)
        a2 == check_statements(a1, if_stmt.then_branch, hop_index, function_name)
    IN  IF Len(a1.errors) > Len(a.errors) THEN a1
        ELSE IF if_stmt.has_else
        THEN check_statements(a2, if_stmt.else_branch, hop_index, function_name)
        ELSE a2

check_if_statement(a, if_stmt, span, hop_index, function_name) ==
    LET a1 == check_condition(a, if_stmt.condition)
        a2 == check_statements(a1, if_stmt.then_branch, hop_index, function_name)
    IN  IF if_stmt.has_else
        THEN check_statements(a2, if_stmt.else_branch, hop_index, function_name)
        ELSE a2

\* A variant that leaves in_loop as the body left it.
keep_loop_context(a, previous_in_loop) == a

\* "Restore loop context" at the end of check_while_statement.
restore_loop_context(a, previous_in_loop) == [a EXCEPT !.in_loop = previous_in_loop]

check_while_statement(a, while_stmt, span, hop_index, function_name) ==
    LET a1 == check_condition(a, while_stmt.condition)
        previous_in_loop == a1.in_loop
        a2 == [a1 EXCEPT !.in_loop = TRUE]
        a3 == check_statements(a2, while_stmt.body, hop_index, function_name)
    IN  restore_loop_context(a3, previous_in_loop)

check_statement(a, stmt_id, hop_index, function_name) ==
    Strict(a,
    LET stmt == program.statements[stmt_id]
    IN  CASE stmt.kind = "Assignment" -> check_assignment(a, stmt, stmt.span)
          [] stmt.kind = "MultiAssignment" -> check_multi_assignment(a, stmt, stmt.span)
          [] stmt.kind = "VarAssignment" -> check_var_assignment(a, stmt, stmt.span)
          [] stmt.kind = "IfStmt" -> check_if_statement(a, stmt, stmt.span, hop_index, function_name)
          [] stmt.kind = "WhileStmt" ->
                check_while_statement(a, stmt, stmt.span, hop_index, function_name)
          [] stmt.kind = "VarDecl" -> check_var_decl(a, stmt, stmt.span)
          [] stmt.kind = "Return" -> check_return_statement(a, stmt, stmt.span)
          [] stmt.kind = "Abort" -> check_abort_statement(a, stmt.span, hop_index, function_name)
          [] stmt.kind = "Break" -> check_break_statement(a, stmt.span)
          [] stmt.kind = "Continue" -> check_continue_statement(a, stmt.span)
          [] stmt.kind = "Empty" -> a)

(***************************************************************************)
(* Name resolution (spec section 4.3).  `r` is the resolver: the Program   *)
(* it fills, its error list and its stack of open scopes.                  *)
(***************************************************************************)
Resolver_new(p) == [program |-> p, errors |-> <<>>, scope_stack |-> <<>>]

resolve_error(r, error) == [r EXCEPT !.errors = Append(@, error)]

\* A child scope of the innermost open scope is opened / the innermost scope is closed.
push_scope(r) ==
    LET parent == IF r.scope_stack = <<>> THEN None ELSE r.scope_stack[Len(r.scope_stack)]
        scope_id == Len(r.program.scopes) + 1
    IN  [r EXCEPT !.program.scopes = Append(@, [parent |-> parent]),
                  !.scope_stack = Append(@, scope_id)]

pop_scope(r) == [r EXCEPT !.scope_stack = SubSeq(@, 1, Len(@) - 1)]

\* The variable `name` of scope `scope_id`, or None.
variable_in(p, scope_id, name) ==
    LET found == {v \in 1..Len(p.variables) :
                     p.variables[v].scope = scope_id /\ p.variables[v].name = name}
    IN  IF found = {} THEN None ELSE CHOOSE v \in found : TRUE

RECURSIVE lookup_from(_, _, _)
\* The scope chain walked outward from position i of the stack.
lookup_from(r, name, i) ==
    IF i = 0 THEN None
    ELSE LET v == variable_in(r.program, r.scope_stack[i], name)
         IN  IF v # None THEN v ELSE lookup_from(r, name, i - 1)

lookup_variable(r, name) == lookup_from(r, name, Len(r.scope_stack))

declare_variable(r, name, ty) ==
    LET scope_id == r.scope_stack[Len(r.scope_stack)]
        var_id == Len(r.program.variables) + 1
    IN  IF variable_in(r.program, scope_id, name) # None
        THEN resolve_error(r, [error |-> "DuplicateVariable", name |-> name])
        ELSE [r EXCEPT !.program.variables = Append(@, [name |-> name, ty |-> ty, scope |-> scope_id]),
                       !.program.var_types = Put(@, var_id, ty)]

\* The field called `name` of table `table_id`, or None.
field_of(p, table_id, name) ==
    LET fs == p.tables[table_id].fields
        found == {i \in 1..Len(fs) : p.fields[fs[i]].field_name = name}
    IN  IF found = {} THEN None ELSE fs[CHOOSE i \in found : \A j \in found : i <= j]

\* The slots of one table-touching construct: the table, the key names, the field names.
resolve_table_slots(p, table_name, pk_fields, field_names) ==
    LET table_id == Get(p.table_map, table_name)
        pk_ids == [i \in 1..Len(pk_fields) |->
                      IF table_id = None THEN None ELSE field_of(p, table_id, pk_fields[i])]
        field_ids == [i \in 1..Len(field_names) |->
                      IF table_id = None THEN None ELSE field_of(p, table_id, field_names[i])]
        unknown == [i \in 1..Len(pk_fields) |-> pk_fields[i]] \o
                   [i \in 1..Len(field_names) |-> field_names[i]]
        ids == pk_ids \o field_ids
    IN  [resolved_table |-> table_id, resolved_pk_fields |-> pk_ids, resolved_fields |-> field_ids,
         errors |-> IF table_id = None
                    THEN <<[error |-> "UndeclaredTable", name |-> table_name]>>
                    ELSE SelectSeq([i \in 1..Len(ids) |->
                                       IF ids[i] = None
                                       THEN [error |-> "UndeclaredField", table |-> table_name,
                                             field |-> unknown[i]]
                                       ELSE [error |-> ""]],
                                   LAMBDA e : e.error # "")]

RECURSIVE resolve_expression(_, _)
RECURSIVE resolve_expressions(_, _)
RECURSIVE resolve_statement(_, _)
RECURSIVE resolve_block(_, _)

resolve_expressions(r, ids) ==
    Strict(r,
    IF ids = <<>> THEN r
    ELSE resolve_expressions(resolve_expression(r, Head(ids)), Tail(ids)))

resolve_expression(r, expr_id) ==
    Strict(r,
    LET expr == r.program.expressions[expr_id]
    IN  CASE expr.kind = "Ident" ->
                LET v == lookup_variable(r, expr.name)
                IN  IF v = None
                    THEN resolve_error(r, [error |-> "UndeclaredVariable", name |-> expr.name])
                    ELSE [r EXCEPT !.program.resolutions = Put(@, expr_id, v)]
          [] expr.kind = "UnaryOp" -> resolve_expression(r, expr.expr)
          [] expr.kind = "BinaryOp" ->
                resolve_expression(resolve_expression(r, expr.left), expr.right)
          [] expr.kind = "TableFieldAccess" ->
                LET slots == resolve_table_slots(r.program, expr.table_name, expr.pk_fields,
                                                 <<expr.field_name>>)
                    r1 == [r EXCEPT !.program.expressions[expr_id].resolved_table = slots.resolved_table,
                                    !.program.expressions[expr_id].resolved_pk_fields =
                                        slots.resolved_pk_fields,
                                    !.program.expressions[expr_id].resolved_field =
                                        slots.resolved_fields[1],
                                    !.errors = @ \o slots.errors]
                IN  resolve_expressions(r1, expr.pk_exprs)
          [] OTHER -> r)

\* A block, an if-branch or a loop body: a child scope of its own.
resolve_scoped_block(r, stmt_ids) == pop_scope(resolve_block(push_scope(r), stmt_ids))

resolve_statement(r, stmt_id) ==
    Strict(r,
    LET stmt == r.program.statements[stmt_id]
    IN  CASE stmt.kind = "VarDecl" ->
                declare_variable(resolve_expression(r, stmt.init_value), stmt.var_name, stmt.var_type)
          [] stmt.kind = "VarAssignment" ->
                LET v == lookup_variable(r, stmt.var_name)
                    r1 == IF v = None
                          THEN resolve_error(r, [error |-> "UndeclaredVariable",
                                                 name |-> stmt.var_name])
                          ELSE [r EXCEPT !.program.statements[stmt_id].resolved_var = v]
                IN  resolve_expression(r1, stmt.rhs)
          [] stmt.kind = "Assignment" ->
                LET slots == resolve_table_slots(r.program, stmt.table_name, stmt.pk_fields,
                                                 <<stmt.field_name>>)
                    r1 == [r EXCEPT !.program.statements[stmt_id].resolved_table = slots.resolved_table,
                                    !.program.statements[stmt_id].resolved_pk_fields =
                                        slots.resolved_pk_fields,
                                    !.program.statements[stmt_id].resolved_field =
                                        slots.resolved_fields[1],
                                    !.errors = @ \o slots.errors]
                IN  resolve_expression(resolve_expressions(r1, stmt.pk_exprs), stmt.rhs)
          [] stmt.kind = "MultiAssignment" ->
                LET names == [i \in 1..Len(stmt.assignments) |-> stmt.assignments[i].field_name]
                    slots == resolve_table_slots(r.program, stmt.table_name, stmt.pk_fields, names)
                    r1 == [r EXCEPT !.program.statements[stmt_id].resolved_table = slots.resolved_table,
                                    !.program.statements[stmt_id].resolved_pk_fields =
                                        slots.resolved_pk_fields,
                                    !.program.statements[stmt_id].assignments =
                                        [i \in 1..Len(@) |->
                                            [@[i] EXCEPT !.resolved_field = slots.resolved_fields[i]]],
                                    !.errors = @ \o slots.errors]
                IN  resolve_expressions(resolve_expressions(r1, stmt.pk_exprs),
                                        [i \in 1..Len(stmt.assignments) |-> stmt.assignments[i].rhs])
          [] stmt.kind = "IfStmt" ->
                LET r1 == resolve_scoped_block(resolve_expression(r, stmt.condition), stmt.then_branch)
                IN  IF stmt.has_else THEN resolve_scoped_block(r1, stmt.else_branch) ELSE r1
          [] stmt.kind = "WhileStmt" ->
                resolve_scoped_block(resolve_expression(r, stmt.condition), stmt.body)
          [] stmt.kind = "Return" ->
                IF stmt.has_value THEN resolve_expression(r, stmt.value) ELSE r
          [] OTHER -> r)

resolve_block(r, stmt_ids) ==
    Strict(r,
    IF stmt_ids = <<>> THEN r
    ELSE resolve_block(resolve_statement(r, Head(stmt_ids)), Tail(stmt_ids)))

resolve_hop(r, hop_id) ==
    LET hop == r.program.hops[hop_id]
        node_id == Get(r.program.node_map, hop.node_name)
        r1 == IF node_id = None
              THEN resolve_error(r, [error |-> "UndeclaredNode", name |-> hop.node_name])
              ELSE [r EXCEPT !.program.hops[hop_id].resolved_node = node_id]
    IN  resolve_scoped_block(r1, hop.statements)

RECURSIVE resolve_hops(_, _)
resolve_hops(r, hop_ids) ==
    Strict(r,
    IF hop_ids = <<>> THEN r
    ELSE resolve_hops(resolve_hop(r, Head(hop_ids)), Tail(hop_ids)))

RECURSIVE declare_parameters(_, _)
declare_parameters(r, param_ids) ==
    IF param_ids = <<>> THEN r
    ELSE LET param == r.program.parameters[Head(param_ids)]
         IN  declare_parameters(declare_variable(r, param.param_name, param.param_type),
                                Tail(param_ids))

\* The outermost scope of a function holds its parameters.
resolve_function(r, func_id) ==
    LET func == r.program.functions[func_id]
    IN  pop_scope(resolve_hops(declare_parameters(push_scope(r), func.parameters), func.hops))

RECURSIVE resolve_functions(_, _)
resolve_functions(r, func_ids) ==
    Strict(r,
    IF func_ids = <<>> THEN r
    ELSE resolve_functions(resolve_function(r, Head(func_ids)), Tail(func_ids)))

resolve_names(p) == resolve_functions(Resolver_new(p), p.root_functions)

\* Name resolution between building and analysis.  A Program it reports
\* errors for is not handed on.
ResolveNames ==
    /\ pc = "built"
    /\ LET r == resolve_names(program)
       IN  /\ resolve_errors' = r.errors
           /\ program' = r.program
           /\ pc' = IF r.errors = <<>> THEN "resolved" ELSE "resolve_failed"
    /\ UNCHANGED <<pending, returned, sc_graph, output, source, history, inference, calls, builder, build_errors, item, build_result, analyzer, fi, hi, si, result>>

(***************************************************************************)
(* analyze_program: SemanticAnalyzer::new, then analyze, one statement of  *)
(* a hop at a step.  run_frontend of main.rs calls it on the Program as    *)
(* build_program_from_pair returned it.                                    *)
(***************************************************************************)
current_func == program.functions[program.root_functions[fi]]
current_hop_block == program.hops[current_func.hops[hi]]

\* A variant that goes on with the analyzer of the call before.
AnalyzeWithUsedAnalyzer ==
    /\ pc \in {"built", "resolved", "analyzed", "inferred"}
    /\ pc \in {"analyzed", "inferred"} => calls > 0
    /\ calls' = IF pc \in {"analyzed", "inferred"} THEN calls - 1 ELSE calls
    /\ analyzer' = [SemanticAnalyzer_new EXCEPT !.errors = analyzer.errors]
    /\ fi' = 1
    /\ history' = Append(history, [program |-> program, after |-> program,
                                   result |-> "none", errors |-> <<>>])
    /\ pc' = IF program.root_functions # <<>> THEN "check_function" ELSE "analyze_return"
    /\ UNCHANGED <<pending, returned, sc_graph, output, source, inference, builder, build_errors, item, build_result, program,
                   resolve_errors, hi, si, result>>

\* A call of analyze_program: SemanticAnalyzer::new(program).  The first call
\* follows the build (or name resolution); the caller may call again on the
\* Program it still holds.
AnalyzeProgram ==
    /\ pc \in {"built", "resolved", "analyzed", "inferred"}
    /\ pc \in {"analyzed", "inferred"} => calls > 0
    /\ calls' = IF pc \in {"analyzed", "inferred"} THEN calls - 1 ELSE calls
    /\ analyzer' = SemanticAnalyzer_new
    /\ fi' = 1
    /\ history' = Append(history, [program |-> program, after |-> program,
                                   result |-> "none", errors |-> <<>>])
    /\ pc' = IF program.root_functions # <<>> THEN "check_function" ELSE "analyze_return"
    /\ UNCHANGED <<pending, returned, sc_graph, output, source, inference, builder, build_errors, item, build_result, program,
                   resolve_errors, hi, si, result>>

\* A variant that leaves has_return as the function before left it.
CheckFunctionKeepingHasReturn ==
    /\ pc = "check_function"
    /\ analyzer' = [analyzer EXCEPT !.current_function = program.root_functions[fi],
                                    !.return_type = current_func.return_type]
    /\ hi' = 1
    /\ pc' = IF current_func.hops # <<>> THEN "check_hop_block" ELSE "end_function"
    /\ UNCHANGED <<pending, returned, sc_graph, output, source, history, inference, calls, builder, build_errors, item, build_result,
                   program, resolve_errors, fi, si, result>>

\* The head of check_function.
CheckFunction ==
    /\ pc = "check_function"
    /\ analyzer' = [analyzer EXCEPT !.current_function = program.root_functions[fi],
                                    !.return_type = current_func.return_type,
                                    !.has_return = FALSE]
    /\ hi' = 1
    /\ pc' = IF current_func.hops # <<>> THEN "check_hop_block" ELSE "end_function"
    /\ UNCHANGED <<pending, returned, sc_graph, output, source, history, inference, calls, builder, build_errors, item, build_result, program, resolve_errors,
                   fi, si, result>>

\* The head of check_hop_block.
CheckHopBlock ==
    /\ pc = "check_hop_block"
    /\ analyzer' = [analyzer EXCEPT !.current_hop = current_func.hops[hi],
                                    !.current_node = current_hop_block.resolved_node]
    /\ si' = 1
    /\ pc' = IF current_hop_block.statements # <<>> THEN "check_statement" ELSE "end_hop_block"
    /\ UNCHANGED <<pending, returned, sc_graph, output, source, history, inference, calls, builder, build_errors, item, build_result, program, resolve_errors,
                   fi, hi, result>>

\* One turn of the loop of check_hop_block; hop_index counts from 0.
CheckStatement ==
    /\ pc = "check_statement"
    /\ analyzer' = check_statement(analyzer, current_hop_block.statements[si], hi - 1,
                                   current_func.name)
    /\ si' = si + 1
    /\ pc' = IF si < Len(current_hop_block.statements) THEN "check_statement" ELSE "end_hop_block"
    /\ UNCHANGED <<pending, returned, sc_graph, output, source, history, inference, calls, builder, build_errors, item, build_result, program, resolve_errors,
                   fi, hi, result>>

\* The tail of check_hop_block.
EndHopBlock ==
    /\ pc = "end_hop_block"
    /\ analyzer' = [analyzer EXCEPT !.current_hop = None, !.current_node = None]
    /\ hi' = hi + 1
    /\ pc' = IF hi < Len(current_func.hops) THEN "check_hop_block" ELSE "end_function"
    /\ UNCHANGED <<pending, returned, sc_graph, output, source, history, inference, calls, builder, build_errors, item, build_result, program, resolve_errors,
                   fi, si, result>>

\* "Check return requirements" and the tail of check_function.
check_return_requirements(a, func) ==
    IF func.return_type \in TypeNames /\ ~a.has_return
    THEN error_at(a, func.span, [error |-> "MissingReturn", function |-> func.name])
    ELSE a

EndFunction ==
    /\ pc = "end_function"
    /\ analyzer' = [check_return_requirements(analyzer, current_func)
                       EXCEPT !.current_function = None]
    /\ fi' = fi + 1
    /\ pc' = IF fi < Len(program.root_functions) THEN "check_function" ELSE "analyze_return"
    /\ UNCHANGED <<pending, returned, sc_graph, output, source, history, inference, calls, builder, build_errors, item, build_result, program, resolve_errors,
                   hi, si, result>>

\* The end of analyze: Ok(()) or Err(self.errors).
AnalyzeReturn ==
    /\ pc = "analyze_return"
    /\ result' = IF analyzer.errors = <<>> THEN "Ok" ELSE "Err"
    /\ history' = [history EXCEPT ![Len(history)] =
                       [@ EXCEPT !.after = program, !.result = result',
                                 !.errors = analyzer.errors]]
    /\ pc' = "analyzed"
    /\ UNCHANGED <<pending, returned, sc_graph, output, source, inference, calls, builder, build_errors, item, build_result, program,
                   resolve_errors, analyzer, fi, hi, si>>

(***************************************************************************)
(* TypeInferrer: the second half of analyze_program_with_types.  `p` is    *)
(* the Program it updates.                                                 *)
(***************************************************************************)
get_expression_type(p, expr_id) ==
    LET expr == p.expressions[expr_id]
    IN  CASE expr.kind = "Ident" ->
                IF expr_id \in DOMAIN p.resolutions
                THEN p.variables[p.resolutions[expr_id]].ty
                ELSE NoType
          [] expr.kind = "IntLit" -> "Int"
          [] expr.kind = "FloatLit" -> "Float"
          [] expr.kind = "StringLit" -> "String"
          [] expr.kind = "BoolLit" -> "Bool"
          [] expr.kind = "TableFieldAccess" ->
                IF expr.resolved_type # NoType THEN expr.resolved_type
                ELSE IF expr.resolved_field # None
                THEN p.fields[expr.resolved_field].field_type
                ELSE NoType
          [] expr.kind \in {"UnaryOp", "BinaryOp"} -> expr.resolved_type

infer_unary_result_type(op, operand_type) ==
    CASE op = "Not" -> "Bool"
      [] op = "Neg" -> IF operand_type # NoType THEN operand_type ELSE "Int"

infer_binary_result_type(op, left_type, right_type) ==
    CASE op \in {"Eq", "Neq", "Lt", "Lte", "Gt", "Gte"} -> "Bool"
      [] op \in {"And", "Or"} -> "Bool"
      [] op \in {"Add", "Sub", "Mul", "Div"} ->
            IF left_type = "Float" \/ right_type = "Float" THEN "Float" ELSE "Int"

\* A variant that records the inferred type in the nodes of the operands as well.
store_type_in_operands_too(p, expr_id, ty) ==
    IF ty # NoType /\ p.expressions[expr_id].kind \in {"TableFieldAccess", "UnaryOp", "BinaryOp"}
    THEN LET expr == p.expressions[expr_id]
         IN  [p EXCEPT !.expressions =
                 [id \in DOMAIN p.expressions |->
                     IF id \in {expr_id, expr.expr, expr.left, expr.right}
                     THEN [p.expressions[id] EXCEPT !.resolved_type = ty]
                     ELSE p.expressions[id]]]
    ELSE p

\* "Update the AST with the inferred type": only the three kinds that have the slot.
store_inferred_type(p, expr_id, ty) ==
    IF ty # NoType /\ p.expressions[expr_id].kind \in {"TableFieldAccess", "UnaryOp", "BinaryOp"}
    THEN [p EXCEPT !.expressions[expr_id].resolved_type = ty]
    ELSE p

RECURSIVE infer_expression_type(_, _)
infer_expression_type(p, expr_id) ==
    LET expr == p.expressions[expr_id]
        existing_type == get_expression_type(p, expr_id)
    IN  IF existing_type # NoType THEN [program |-> p, ty |-> existing_type]
        ELSE CASE expr.kind = "Ident" ->
                    [program |-> p,
                     ty |-> IF expr_id \in DOMAIN p.resolutions
                            THEN p.variables[p.resolutions[expr_id]].ty
                            ELSE NoType]
               [] expr.kind = "IntLit" -> [program |-> p, ty |-> "Int"]
               [] expr.kind = "FloatLit" -> [program |-> p, ty |-> "Float"]
               [] expr.kind = "StringLit" -> [program |-> p, ty |-> "String"]
               [] expr.kind = "BoolLit" -> [program |-> p, ty |-> "Bool"]
               [] expr.kind = "TableFieldAccess" ->
                    Bind(IF expr.resolved_field # None
                         THEN p.fields[expr.resolved_field].field_type
                         ELSE NoType,
                         LAMBDA ty : [program |-> store_inferred_type(p, expr_id, ty), ty |-> ty])
               [] expr.kind = "UnaryOp" ->
                    Bind(infer_expression_type(p, expr.expr),
                         LAMBDA operand :
                            Bind(infer_unary_result_type(expr.op, operand.ty),
                                 LAMBDA ty :
                                    [program |-> store_inferred_type(operand.program, expr_id, ty),
                                     ty |-> ty]))
               [] expr.kind = "BinaryOp" ->
                    Bind(infer_expression_type(p, expr.left),
                         LAMBDA left :
                            Bind(infer_expression_type(left.program, expr.right),
                                 LAMBDA right :
                                    Bind(infer_binary_result_type(expr.op, left.ty, right.ty),
                                         LAMBDA ty :
                                            [program |-> store_inferred_type(right.program, expr_id, ty),
                                             ty |-> ty])))

RECURSIVE infer_pass(_, _, _)
\* One pass of infer_types over the expression ids from expr_id on.
infer_pass(p, expr_id, changed) ==
    IF expr_id > Len(p.expressions) THEN [program |-> p, changed |-> changed]
    ELSE Bind(infer_expression_type(p, expr_id),
              LAMBDA r :
                 infer_pass(r.program, expr_id + 1,
                            changed \/ (get_expression_type(p, expr_id) = NoType
                                        /\ get_expression_type(r.program, expr_id) # NoType)))

\* let max_passes = 3;
max_passes == 3

RECURSIVE infer_passes(_, _)
\* A variant that stops after its first pass, whatever that pass changed.
infer_one_pass(p, pass) ==
    Bind(infer_pass(p, 1, FALSE),
         LAMBDA r : [program |-> r.program, passes |-> pass, changed |-> r.changed,
                     settled |-> r.program = p])

\* The passes of infer_types from pass number `pass` on (counted from 1):
\* the Program left behind, the number of passes made, the `changed` of the
\* last pass and whether the last pass left every slot as it was.
infer_passes(p, pass) ==
    Bind(infer_pass(p, 1, FALSE),
         LAMBDA r :
            IF ~r.changed \/ pass = max_passes
            THEN [program |-> r.program, passes |-> pass, changed |-> r.changed,
                  settled |-> r.program = p]
            ELSE infer_passes(r.program, pass + 1))

infer_types(p) == infer_passes(p, 1)

\* A variant that goes on to type inference whatever the analysis returned.
InferTypesAfterErrors ==
    /\ pc = "analyzed"
    /\ LET r == infer_types(program)
       IN  /\ program' = r.program
           /\ inference' = Append(inference, [before |-> program, after |-> r.program,
                                               passes |-> r.passes, changed |-> r.changed,
                                               settled |-> r.settled])
    /\ pc' = "inferred"
    /\ UNCHANGED <<pending, returned, sc_graph, output, source, history, calls, builder, build_errors, item, build_result,
                   resolve_errors, analyzer, fi, hi, si, result>>

\* analyze_program_with_types after `analyzer.analyze()?` returned Ok.
InferTypes ==
    /\ pc = "analyzed"
    /\ result = "Ok"
    /\ LET r == infer_types(program)
       IN  /\ program' = r.program
           /\ inference' = Append(inference, [before |-> program, after |-> r.program,
                                               passes |-> r.passes, changed |-> r.changed,
                                               settled |-> r.settled])
    /\ pc' = "inferred"
    /\ UNCHANGED <<pending, returned, sc_graph, output, source, history, calls, builder, build_errors, item, build_result,
                   resolve_errors, analyzer, fi, hi, si, result>>

(***************************************************************************)
(* SC-graph (spec section 4.7).  A vertex is a position in `hops`; an edge  *)
(* names its two vertices and its type.  Tables and fields are identified  *)
(* by their names as written in the access.                                *)
(***************************************************************************)
Access(table, field, kind) == [table |-> table, field |-> field, kind |-> kind]

RECURSIVE expression_accesses(_, _)
\* The reads of the expressions `ids`: every table-field access in them, the
\* ones inside key expressions included.
expression_accesses(p, ids) ==
    IF ids = <<>> THEN {}
    ELSE LET expr == p.expressions[Head(ids)]
         IN  (CASE expr.kind = "TableFieldAccess" ->
                      {Access(expr.table_name, expr.field_name, "read")}
                      \cup expression_accesses(p, expr.pk_exprs)
                [] expr.kind = "UnaryOp" -> expression_accesses(p, <<expr.expr>>)
                [] expr.kind = "BinaryOp" -> expression_accesses(p, <<expr.left, expr.right>>)
                [] OTHER -> {})
             \cup expression_accesses(p, Tail(ids))

RECURSIVE statement_accesses(_, _)
\* The accesses of the statements `ids` and of the statements nested in them:
\* the left-hand side of a field assignment and every pair of a
\* multi-assignment write, every table-field access reads.
statement_accesses(p, ids) ==
    IF ids = <<>> THEN {}
    ELSE LET stmt == p.statements[Head(ids)]
         IN  (CASE stmt.kind = "Assignment" ->
                      {Access(stmt.table_name, stmt.field_name, "write")}
                      \cup expression_accesses(p, stmt.pk_exprs \o <<stmt.rhs>>)
                [] stmt.kind = "MultiAssignment" ->
                      {Access(stmt.table_name, stmt.assignments[i].field_name, "write") :
                          i \in 1..Len(stmt.assignments)}
                      \cup expression_accesses(p, stmt.pk_exprs
                              \o [i \in 1..Len(stmt.assignments) |-> stmt.assignments[i].rhs])
                [] stmt.kind = "VarDecl" -> expression_accesses(p, <<stmt.init_value>>)
                [] stmt.kind = "VarAssignment" -> expression_accesses(p, <<stmt.rhs>>)
                [] stmt.kind = "IfStmt" ->
                      expression_accesses(p, <<stmt.condition>>)
                      \cup statement_accesses(p, stmt.then_branch)
                      \cup statement_accesses(p, stmt.else_branch)
                [] stmt.kind = "WhileStmt" ->
                      expression_accesses(p, <<stmt.condition>>)
                      \cup statement_accesses(p, stmt.body)
                [] stmt.kind = "Return" ->
                      IF stmt.has_value THEN expression_accesses(p, <<stmt.value>>) ELSE {}
                [] OTHER -> {})
             \cup statement_accesses(p, Tail(ids))

\* The access set of a hop.
hop_accesses(p, hop_id) == statement_accesses(p, p.hops[hop_id].statements)

\* A variant that takes two reads of one field for a conflict as well.
same_target(a, b) == a.table = b.table /\ a.field = b.field

\* Two accesses conflict iff they target the same (table, field) and at least one is a write.
conflict(a, b) ==
    a.table = b.table /\ a.field = b.field /\ (a.kind = "write" \/ b.kind = "write")

access_sets_conflict(A, B) == \E a \in A : \E b \in B : conflict(a, b)

RECURSIVE graph_hops(_, _)
\* The vertices: every hop, ordered by function order, then hop index.
graph_hops(p, func_ids) ==
    IF func_ids = <<>> THEN <<>>
    ELSE [i \in 1..Len(p.functions[Head(func_ids)].hops) |->
             [function |-> Head(func_ids), hop |-> p.functions[Head(func_ids)].hops[i]]]
         \o graph_hops(p, Tail(func_ids))

Edge(v1, v2, edge_type) == [v1 |-> v1, v2 |-> v2, edge_type |-> edge_type]

\* One S-edge for every adjacent hop pair of a function.
s_edges(hops) ==
    SelectSeq([i \in 1..(Len(hops) - 1) |->
                  IF hops[i].function = hops[i + 1].function THEN Edge(i, i + 1, "S")
                  ELSE Edge(0, 0, "")],
              LAMBDA e : e.edge_type = "S")

RECURSIVE c_edges(_, _, _, _)
\* One C-edge for every unordered pair of hops of different functions whose
\* access sets conflict: the pairs <<i, j>>, i < j, from <<i, j>> on.
c_edges(p, hops, i, j) ==
    IF i >= Len(hops) THEN <<>>
    ELSE IF j > Len(hops) THEN c_edges(p, hops, i + 1, i + 2)
    ELSE (IF /\ hops[i].function # hops[j].function
             /\ access_sets_conflict(hop_accesses(p, hops[i].hop), hop_accesses(p, hops[j].hop))
          THEN <<Edge(i, j, "C")>>
          ELSE <<>>)
         \o c_edges(p, hops, i, j + 1)

\* SCGraph::new
SCGraph_new(p) ==
    LET hops == graph_hops(p, p.root_functions)
    IN  [hops |-> hops, edges |-> s_edges(hops) \o c_edges(p, hops, 1, 2)]

\* stats(): (|V|, |S-edges|, |C-edges|)
stats(g) ==
    <<Len(g.hops),
      Len(SelectSeq(g.edges, LAMBDA e : e.edge_type = "S")),
      Len(SelectSeq(g.edges, LAMBDA e : e.edge_type = "C"))>>

\* The function a vertex belongs to.
get_function_name(p, g, v) == p.functions[g.hops[v].function].name

neighbours(g, v) ==
    {w \in 1..Len(g.hops) : w # v /\ \E e \in Range(g.edges) : {e.v1, e.v2} = {v, w}}

\* The types of the edges between two vertices.
edge_types(g, v, w) == {e.edge_type : e \in {d \in Range(g.edges) : {d.v1, d.v2} = {v, w}}}

\* The types of the edges along the cycle, the closing edge included.
cycle_edge_types(g, cycle) ==
    UNION {edge_types(g, cycle[i], cycle[(i % Len(cycle)) + 1]) : i \in 1..Len(cycle)}

\* A cycle is mixed if it contains at least one S-edge and at least one C-edge.
is_mixed(g, cycle) == {"S", "C"} \subseteq cycle_edge_types(g, cycle)

RECURSIVE cycles_through(_, _, _)
\* A variant that reports a cycle for either direction it is walked in.
cycles_in_both_directions(g, start, path) ==
    LET last == path[Len(path)]
    IN  (IF Len(path) >= 3 /\ start \in neighbours(g, last) THEN {path} ELSE {})
        \cup UNION {cycles_through(g, start, Append(path, w)) :
                       w \in {x \in neighbours(g, last) : x > start /\ x \notin Range(path)}}

\* The depth-first search for the simple cycles whose least vertex is `start`,
\* from the simple path `path` on; a cycle is reported in the direction that
\* has the lesser of the two neighbours of `start` first.
cycles_through(g, start, path) ==
    LET last == path[Len(path)]
    IN  (IF Len(path) >= 3 /\ start \in neighbours(g, last) /\ path[2] < last
         THEN {path} ELSE {})
        \cup UNION {cycles_through(g, start, Append(path, w)) :
                       w \in {x \in neighbours(g, last) : x > start /\ x \notin Range(path)}}

RECURSIVE listed(_)
\* The elements of a finite set as a list.
listed(S) ==
    IF S = {} THEN <<>>
    ELSE LET x == CHOOSE y \in S : TRUE IN <<x>> \o listed(S \ {x})

RECURSIVE mixed_cycles_from(_, _)
\* The mixed simple cycles whose least vertex is `start` or a later vertex.
mixed_cycles_from(g, start) ==
    IF start > Len(g.hops) THEN <<>>
    ELSE listed({c \in cycles_through(g, start, <<start>>) : is_mixed(g, c)})
         \o mixed_cycles_from(g, start + 1)

\* find_mixed_cycles(): every cycle as the list of its vertices.
find_mixed_cycles(g) == mixed_cycles_from(g, 1)

NoGraph == [hops |-> <<>>, edges |-> <<>>]

NoOutput == [stats |-> <<>>, mixed_cycles |-> <<>>]

\* output_scgraph on the Program run_frontend returned: SCGraph::new, then
\* the statistics and the mixed cycles of format_scgraph_output.
OutputScgraph ==
    /\ pc = "analyzed"
    /\ result = "Ok"
    /\ LET g == SCGraph_new(program)
       IN  /\ sc_graph' = g
           /\ output' = [stats |-> stats(g), mixed_cycles |-> find_mixed_cycles(g)]
    /\ pc' = "output"
    /\ UNCHANGED <<pending, returned, source, history, inference, calls, builder, build_errors, item, build_result,
                   program, resolve_errors, analyzer, fi, hi, si, result>>

\* The caller hands the next parse tree to build_program of the AstBuilder
\* it already used: `errors` starts empty, self.program is what the call
\* before left.
BuildProgramAgain ==
    /\ pc \in {"built", "build_failed"}
    /\ pending # <<>>
    /\ source' = Head(pending)
    /\ pending' = Tail(pending)
    /\ build_errors' = <<>>
    /\ build_result' = "none"
    /\ item' = 0
    /\ pc' = "nodes"
    /\ UNCHANGED <<returned, sc_graph, output, history, inference, calls, builder, program,
                   resolve_errors, analyzer, fi, hi, si, result>>

RECURSIVE build_tables(_, _, _)
\* The second pass of build_program from the table declaration `at` on.
build_tables(p, decls, at) ==
    IF at > Len(decls) THEN [program |-> p, errors |-> <<>>]
    ELSE Bind(build_table_declaration(p, decls[at], at),
              LAMBDA first :
                 Bind(build_tables(first.program, decls, at + 1),
                      LAMBDA rest : [program |-> rest.program,
                                     errors |-> first.errors \o rest.errors]))

RECURSIVE build_functions(_, _)
\* The third pass of build_program.
build_functions(p, decls) ==
    IF decls = <<>> THEN [program |-> p, errors |-> <<>>]
    ELSE Bind(build_function_declaration(p, Head(decls)),
              LAMBDA first :
                 Bind(build_functions(first.program, Tail(decls)),
                      LAMBDA rest : [program |-> rest.program,
                                     errors |-> first.errors \o rest.errors]))

\* build_program as one step, on a builder whose self.program is p: what it
\* returns and the self.program it leaves.
build_program(p, pair) ==
    Bind(build_tables(build_nodes_block(p, pair.nodes), pair.tables, 1),
         LAMBDA tables :
            Bind(build_functions(tables.program, pair.functions),
                 LAMBDA functions :
                    IF tables.errors \o functions.errors = <<>>
                    THEN [value |-> Ok(functions.program), builder |-> Program_new]
                    ELSE [value |-> Err(tables.errors \o functions.errors),
                          builder |-> functions.program]))

\* let mut builder = AstBuilder::new(); builder.build_program(pair)
build_program_from_pair(pair) == build_program(Program_new, pair).value

Next ==
    \/ BuildNodesBlock
    \/ BuildTableDeclaration
    \/ BuildFunctionDeclaration
    \/ BuildProgramReturn
    \/ ResolveNames
    \/ AnalyzeProgram
    \/ CheckFunction
    \/ CheckHopBlock
    \/ CheckStatement
    \/ EndHopBlock
    \/ EndFunction
    \/ AnalyzeReturn
    \/ InferTypes
    \/ OutputScgraph

\* AstBuilder::new(), the parse tree `src` handed to build_program and the
\* parse trees `later` the same AstBuilder is handed afterwards.
InitBuilder(src, later) ==
    /\ source = src
    /\ pc = "nodes"
    /\ builder = Program_new
    /\ build_errors = <<>>
    /\ item = 0
    /\ build_result = "none"
    /\ program = Program_new
    /\ resolve_errors = <<>>
    /\ analyzer = SemanticAnalyzer_new
    /\ fi = 0
    /\ hi = 0
    /\ si = 0
    /\ result = "none"
    /\ history = <<>>
    /\ inference = <<>>
    /\ sc_graph = NoGraph
    /\ output = NoOutput
    /\ pending = later
    /\ returned = <<>>

\* build_program_from_pair: a builder that is used once.
InitWith(src) == InitBuilder(src, <<>>)

(***************************************************************************)
(* The programs the pipeline is run on.                                    *)
(***************************************************************************)
MaxNodes == 2    \* names in the nodes block
MaxFields == 2   \* fields of a table declaration
MaxStmts == 2    \* statements of a block
MaxDepth == 2    \* if / while statements around a block
MaxHops == 2     \* hops of a function
MaxKeys == 2     \* key pairs of a table access

Cond == PLit("BoolLit")
IntKey == PLit("IntLit")

\* table T on A { primary int k; int v; float w; }
TableT == PTable("T", "A", <<PField("int", "k", TRUE), PField("int", "v", FALSE),
                            PField("float", "w", FALSE)>>)
\* table U on B { primary int k; primary string j; int v; }
TableU == PTable("U", "B", <<PField("int", "k", TRUE), PField("string", "j", TRUE),
                            PField("int", "v", FALSE)>>)

\* ---- control flow: abort, break, continue inside if / while, in any hop ----
Wrap(w, block) == IF w = "while" THEN PWhile(Cond, block) ELSE PIfElse(Cond, block, block)

RECURSIVE Nest(_, _)
\* `block` inside the statements ws, the outermost first.
Nest(ws, block) == IF ws = <<>> THEN block ELSE <<Wrap(Head(ws), Nest(Tail(ws), block))>>

ControlAtoms ==
    {PSimple("Abort"), PSimple("Break"), PSimple("Continue"), PWhile(Cond, <<PSimple("Break")>>)}

ControlBlocks == SeqsUpTo(ControlAtoms, MaxStmts) \ {<<>>}

FillerHop == PHop("A", <<PSimple("Abort"), PSimple("Empty")>>)

\* void g() { hop on A { while (true) { continue; } } }
LoopFunction == PFunction("void", "g", <<>>, <<PHop("A", <<PWhile(Cond, <<PSimple("Continue")>>)>>)>>)

\* <<h, n>>: hop h of a function of n hops.
HopPositions == {hn \in (1..MaxHops) \X (1..MaxHops) : hn[1] <= hn[2]}

ControlSources ==
    {PProgram(<<"A">>, <<TableT>>,
              before \o <<PFunction("void", "f", <<>>,
                                    [i \in 1..hn[2] |-> IF i = hn[1] THEN PHop("A", Nest(ws, block))
                                                        ELSE FillerHop])>>) :
        before \in {<<>>, <<LoopFunction>>},
        hn \in HopPositions,
        ws \in SeqsUpTo({"if", "while"}, MaxDepth),
        block \in ControlBlocks}

InitControl == \E src \in ControlSources : InitWith(src) /\ calls = 0

SpecControl == InitControl /\ [][Next]_vars

\* ---- table accesses: T is on A, U on B; the hop is on either ----
StringKey == PLit("StringLit")

\* k = 1, k = "s", j = "s", v = 1, w = 1
KeyPairs ==
    {<<"k", IntKey>>, <<"k", StringKey>>, <<"j", StringKey>>, <<"v", IntKey>>, <<"w", IntKey>>}

\* pk_pair ("," pk_pair)*
KeyLists == SeqsUpTo(KeyPairs, MaxKeys) \ {<<>>}

KeyNames(keys) == [i \in 1..Len(keys) |-> keys[i][1]]

KeyExprs(keys) == [i \in 1..Len(keys) |-> keys[i][2]]

\* U[k = 1, j = "s"].v and T[k = 1].v, well-keyed reads.
ReadU == PAccess("U", <<"k", "j">>, <<IntKey, StringKey>>, "v")

ReadT == PAccess("T", <<"k">>, <<IntKey>>, "v")

\* int and float literals, reads of either table, and a read keyed by a read.
Values == {PLit("IntLit"), PLit("FloatLit"), ReadU, ReadT, PAccess("T", <<"k">>, <<ReadU>>, "v")}

\* The statements that touch table t with the key list keys.
TableStatements(t, keys, value) ==
    {PAssign(t, KeyNames(keys), KeyExprs(keys), "v", value),
     PMulti(t, KeyNames(keys), KeyExprs(keys), <<"v", "w">>, <<value, PLit("IntLit")>>),
     PVarDecl("int", "x", PAccess(t, KeyNames(keys), KeyExprs(keys), "v")),
     PIf(PBinary("==", PAccess(t, KeyNames(keys), KeyExprs(keys), "v"), value),
         <<PSimple("Empty")>>)}

TableSourcesOn(nodes, values) ==
    {PProgram(<<"A", "B">>, <<TableT, TableU>>,
              <<PFunction("void", "f", <<>>, <<PHop(node, <<stmt>>)>>)>>) :
        node \in nodes,
        stmt \in UNION {TableStatements(t, keys, value) :
                            t \in {"T", "U"}, keys \in KeyLists, value \in values}}

TableSources == TableSourcesOn({"A", "B"}, Values)

InitTables == \E src \in TableSources : InitWith(src) /\ calls = 0

SpecTables == InitTables /\ [][Next]_vars

\* ---- declarations: node lists, tables with and without primary keys, repeated names ----
DeclaredFields ==
    {PField("int", "k", TRUE), PField("string", "j", TRUE), PField("int", "v", FALSE)}

DeclaredTables ==
    {<<>>} \cup {<<PTable("T", node, fs)>> \o more :
                    node \in {"A", "B"},
                    fs \in SeqsUpTo(DeclaredFields, MaxFields) \ {<<>>},
                    more \in {<<>>, <<TableT>>, <<TableU>>}}

EmptyFunction(name) == PFunction("void", name, <<>>, <<PHop("A", <<PSimple("Empty")>>)>>)

DeclaredFunctions ==
    {<<>>, <<EmptyFunction("f")>>, <<EmptyFunction("f"), EmptyFunction("f")>>,
     <<EmptyFunction("f"), EmptyFunction("g")>>}

DeclarationSources ==
    {PProgram(ns, ts, fs) :
        ns \in SeqsUpTo({"A", "B"}, MaxNodes) \ {<<>>}, ts \in DeclaredTables, fs \in DeclaredFunctions}

InitBuild ==
    \E src \in DeclarationSources
                \cup TableSourcesOn({"A"}, {PAccess("T", <<"k">>, <<ReadU>>, "v")}) :
        InitWith(src) /\ calls = 0

SpecBuild == InitBuild /\ [][Next]_vars

\* ---- returns: a function of any return type, its returns at any depth of any hop ----
ReturnAtoms ==
    {PSimple("Empty"), PReturn, PReturnValue(PLit("IntLit")), PReturnValue(PLit("FloatLit"))}

ReturnBlocks == SeqsUpTo(ReturnAtoms, MaxStmts) \ {<<>>}

QuietHop == PHop("A", <<PSimple("Empty")>>)

\* int g() { hop on A { return 1; } }
ReturningFunction == PFunction("int", "g", <<>>, <<PHop("A", <<PReturnValue(PLit("IntLit"))>>)>>)

\* The returns are in the last hop of the function.
ReturnSources ==
    {PProgram(<<"A">>, <<TableT>>,
              before \o <<PFunction(ret, "f", <<>>,
                                    [i \in 1..n |-> IF i = n THEN PHop("A", Nest(ws, block))
                                                    ELSE QuietHop])>>) :
        before \in {<<>>, <<ReturningFunction>>},
        ret \in {"void", "int", "float"},
        n \in 1..MaxHops,
        ws \in SeqsUpTo({"if", "while"}, MaxDepth),
        block \in ReturnBlocks}

InitReturns == \E src \in ReturnSources : InitWith(src) /\ calls = 0

SpecReturns == InitReturns /\ [][Next]_vars

\* ---- operators: every unary and binary operator on literals of every type ----
Literals == {PLit("IntLit"), PLit("FloatLit"), PLit("StringLit"), PLit("BoolLit")}

UnaryTexts == {"!", "-"}

BinaryTexts == {"==", "!=", "<", "<=", ">", ">=", "+", "-", "*", "/", "||", "&&"}

\* !1 and -true: operands that are themselves in error.
BadOperands == {PUnary("!", PLit("IntLit")), PUnary("-", PLit("BoolLit"))}

Operations ==
    {PUnary(o, e) : o \in UnaryTexts, e \in Literals}
    \cup {PBinary(o, l, r) : o \in BinaryTexts, l \in Literals, r \in Literals}
    \cup {PBinary(o, l, r) : o \in {"+", "&&"}, l \in BadOperands \cup {PLit("IntLit")},
                             r \in BadOperands \cup {PLit("IntLit")}}

\* int y = "s";  a statement in error.
BadDecl == PVarDecl("int", "y", PLit("StringLit"))

\* The expression as the condition of an if, an if-else and a while whose
\* branches and body hold a statement in error.
ConditionBlocks ==
    {<<PIf(e, <<BadDecl>>)>> : e \in Operations \cup Literals}
    \cup {<<PIfElse(e, <<PSimple("Empty")>>, <<BadDecl>>)>> : e \in Operations \cup Literals}
    \cup {<<PWhile(e, <<BadDecl>>)>> : e \in Operations \cup Literals}

\* t x = <literal of type t>; x = <literal>;
LiteralOf(t) ==
    CASE t = "int" -> PLit("IntLit")
      [] t = "float" -> PLit("FloatLit")
      [] t = "string" -> PLit("StringLit")
      [] t = "bool" -> PLit("BoolLit")

VarAssignBlocks ==
    {<<PVarDecl(t, "x", LiteralOf(t)), PVarAssign("x", e)>> :
        t \in {"int", "float", "string", "bool"}, e \in Literals}

OperatorSources ==
    {PProgram(<<"A">>, <<TableT>>, <<PFunction("void", "f", <<>>, <<PHop("A", block)>>)>>) :
        block \in ConditionBlocks \cup VarAssignBlocks}

InitOperators == \E src \in OperatorSources : InitWith(src) /\ calls = 0

SpecOperators == InitOperators /\ [][Next]_vars

\* ---- repeated calls: programs that pass and programs that fail, analyzed more than once ----
MaxCalls == 2    \* further calls of the analysis on one Program

\* int x = 1; t y = e;  with e of type t, over identifiers, operators and reads of T.
TypedDecls ==
    {<<"int", PUnary("-", PIdent("x"))>>,
     <<"bool", PUnary("!", PBinary("<", PIdent("x"), PLit("IntLit")))>>,
     <<"float", PBinary("+", ReadT, PLit("FloatLit"))>>,
     <<"int", PBinary("*", PUnary("-", PLit("IntLit")),
                          PBinary("+", PLit("IntLit"), PLit("IntLit")))>>,
     <<"int", ReadT>>,
     <<"int", PAccess("T", <<"k">>, <<PUnary("-", PLit("IntLit"))>>, "v")>>}

InferBlocks ==
    {<<PVarDecl("int", "x", PLit("IntLit")), PVarDecl(d[1], "y", d[2])>> : d \in TypedDecls}

RepeatedSources ==
    {PProgram(<<"A", "B">>, <<TableT, TableU>>,
              <<PFunction("void", "f", <<>>, <<PHop("A", block)>>)>>) :
        block \in InferBlocks \cup VarAssignBlocks
                  \cup {<<PIf(e, <<BadDecl>>)>> : e \in Literals \cup BadOperands}}

InitRepeated == \E src \in RepeatedSources : InitWith(src) /\ calls \in 1..MaxCalls

SpecRepeated == InitRepeated /\ [][Next]_vars

\* ---- SC-graph: functions f and g of one or more hops that read or write T, and a third function ----
\* int x = T[k = 1].v;   T[k = 1].v = 1;   T[k = 1].w = 1;
GraphAtoms ==
    {PVarDecl("int", "x", ReadT),
     PAssign("T", <<"k">>, <<IntKey>>, "v", PLit("IntLit")),
     PAssign("T", <<"k">>, <<IntKey>>, "w", PLit("IntLit"))}

GraphHops == {[i \in 1..Len(ss) |-> PHop("A", <<ss[i]>>)] : ss \in SeqsUpTo(GraphAtoms, MaxHops) \ {<<>>}}

\* void h() { hop on A { T[k = 1] = { v: 1, w: 1 }; } }
\* void h() { hop on A { while (true) { T[k = T[k = 1].v].w = 1; } } }
ThirdFunctions ==
    {<<>>,
     <<PFunction("void", "h", <<>>,
                 <<PHop("A", <<PMulti("T", <<"k">>, <<IntKey>>, <<"v", "w">>,
                                      <<PLit("IntLit"), PLit("IntLit")>>)>>)>>)>>,
     <<PFunction("void", "h", <<>>,
                 <<PHop("A", <<PWhile(Cond, <<PAssign("T", <<"k">>, <<ReadT>>, "w",
                                                      PLit("IntLit"))>>)>>)>>)>>}

GraphSources ==
    {PProgram(<<"A">>, <<TableT>>,
              <<PFunction("void", "f", <<>>, hf), PFunction("void", "g", <<>>, hg)>> \o third) :
        hf \in GraphHops, hg \in GraphHops, third \in ThirdFunctions}

InitGraph == \E src \in GraphSources : InitWith(src) /\ calls = 0

SpecGraph == InitGraph /\ [][Next]_vars

\* ---- unresolved tables: an assignment to T with keys and values that are in error, and a statement after it ----
\* 1, "s", -true, U[k = 1, j = "s"].v
UnresolvedValues == {PLit("IntLit"), PLit("StringLit"), PUnary("-", PLit("BoolLit")), ReadU}

\* [k = 1], [v = 1], [k = "s", w = 1]
UnresolvedKeys ==
    {<<<<"k", IntKey>>>>, <<<<"v", IntKey>>>>, <<<<"k", StringKey>>, <<"w", IntKey>>>>}

\* int y = "s";   break;   T[k = 1].v = 1;
Followers == {BadDecl, PSimple("Break"), PAssign("T", <<"k">>, <<IntKey>>, "v", PLit("IntLit"))}

UnresolvedBlocks ==
    {Nest(ws, <<stmt, follower>>) :
        ws \in {<<>>, <<"if">>, <<"while">>},
        follower \in Followers,
        stmt \in UNION {{PAssign("T", KeyNames(keys), KeyExprs(keys), "v", value),
                         PMulti("T", KeyNames(keys), KeyExprs(keys), <<"v", "w">>,
                                <<value, PLit("StringLit")>>)} :
                           keys \in UnresolvedKeys, value \in UnresolvedValues}}

UnresolvedSources ==
    {PProgram(<<"A", "B">>, <<TableT, TableU>>,
              <<PFunction("void", "f", <<>>, <<PHop(node, block)>>)>>) :
        node \in {"A", "B"}, block \in UnresolvedBlocks}

InitUnresolved == \E src \in UnresolvedSources : InitWith(src) /\ calls = 0

SpecUnresolved == InitUnresolved /\ [][Next]_vars

\* ---- error order: void and int functions whose statements are in error ----
\* ;   break;   int y = "s";   if (1) { int y = "s"; }   int z = (-true) + 1;
OrderAtoms ==
    {PSimple("Empty"), PSimple("Break"), BadDecl, PIf(PLit("IntLit"), <<BadDecl>>),
     PVarDecl("int", "z", PBinary("+", PUnary("-", PLit("BoolLit")), PLit("IntLit")))}

\* int g() { hop on A { break; } }
BreakingFunction == PFunction("int", "g", <<>>, <<PHop("A", <<PSimple("Break")>>)>>)

OrderSources ==
    {PProgram(<<"A">>, <<TableT>>,
              before \o <<PFunction(ret, "f", <<>>, <<PHop("A", block)>>)>>) :
        before \in {<<>>, <<BreakingFunction>>},
        ret \in {"void", "int"},
        block \in SeqsUpTo(OrderAtoms, MaxStmts) \ {<<>>}}

InitOrder == \E src \in OrderSources : InitWith(src) /\ calls = 0

SpecOrder == InitOrder /\ [][Next]_vars

\* ---- one AstBuilder, several parse trees: declarations that are refused and a program that is built ----
MaxBuilds == 2   \* calls of build_program on one AstBuilder

\* table T on B, with the nodes block naming A alone; a table without a
\* primary key; a program with nothing wrong.
RebuildSources ==
    {PProgram(<<"A">>, <<PTable("T", "B", <<PField("int", "k", TRUE)>>)>>, <<>>),
     PProgram(<<"A">>, <<PTable("T", "A", <<PField("int", "v", FALSE)>>)>>, <<EmptyFunction("f")>>),
     PProgram(<<"A", "B">>, <<TableT, TableU>>, <<EmptyFunction("f")>>),
     PProgram(<<"B">>, <<PTable("T", "B", <<PField("int", "k", TRUE)>>)>>, <<EmptyFunction("g")>>)}

\* What the next-state relation is when the caller keeps its AstBuilder.
NextRebuild == Next \/ BuildProgramAgain

InitRebuild ==
    \E pairs \in SeqsUpTo(RebuildSources, MaxBuilds) \ {<<>>} :
        InitBuilder(Head(pairs), Tail(pairs)) /\ calls = 0

SpecRebuild == InitRebuild /\ [][NextRebuild]_vars

(***************************************************************************)
(* Properties.  What a program contains is read off the built Program,     *)
(* independently of the analyzer's own traversal.                          *)
(***************************************************************************)
RECURSIVE LexicalStatements(_, _)
\* <<id, in_while>> for every statement of the list and of the branches and
\* bodies nested in it; in_while tells whether a while body encloses it.
LexicalStatements(stmt_ids, in_while) ==
    IF stmt_ids = <<>> THEN {}
    ELSE LET stmt == program.statements[Head(stmt_ids)]
         IN  {<<Head(stmt_ids), in_while>>}
             \cup LexicalStatements(stmt.then_branch, in_while)
             \cup LexicalStatements(stmt.else_branch, in_while)
             \cup LexicalStatements(stmt.body, TRUE)
             \cup LexicalStatements(Tail(stmt_ids), in_while)

\* <<function id, hop index from 0, statement id, in_while>> for every statement of the program.
ProgramStatements ==
    UNION {UNION {{<<program.root_functions[f], h - 1, sw[1], sw[2]>> :
                     sw \in LexicalStatements(
                               program.hops[program.functions[program.root_functions[f]].hops[h]].statements,
                               FALSE)} :
                  h \in 1..Len(program.functions[program.root_functions[f]].hops)} :
           f \in 1..Len(program.root_functions)}

\* The errors the analyzer reported at a span.
ErrorsAt(span) == {i \in 1..Len(analyzer.errors) : analyzer.errors[i].span = span}

StatementsOfKind(kind) == {x \in ProgramStatements : program.statements[x[3]].kind = kind}

\* C2: an abort in the hop of index 0 gets no error; an abort in the hop of
\* index i >= 1 gets exactly one AbortNotInFirstHop { function, hop_index: i },
\* whatever the if / while statements around it.
C2_AbortOnlyInFirstHop ==
    pc = "analyzed" =>
        \A x \in StatementsOfKind("Abort") :
            LET span == program.statements[x[3]].span
            IN  IF x[2] = 0 THEN ErrorsAt(span) = {}
                ELSE /\ Cardinality(ErrorsAt(span)) = 1
                     /\ \A i \in ErrorsAt(span) :
                           analyzer.errors[i] =
                               [error |-> "AbortNotInFirstHop",
                                function |-> program.functions[x[1]].name,
                                hop_index |-> x[2], span |-> span]

\* C2 witness: an abort inside a while body of the second hop has been reported,
\* and an abort of a first hop has not.
C2_NestedAbortReported ==
    /\ pc = "analyzed"
    /\ \E x \in StatementsOfKind("Abort") :
          x[2] = 1 /\ x[4] /\ ErrorsAt(program.statements[x[3]].span) # {}
    /\ \E x \in StatementsOfKind("Abort") :
          x[2] = 0 /\ ErrorsAt(program.statements[x[3]].span) = {}

\* C10: a break (continue) gets no error iff a while body of its hop encloses
\* it; otherwise it gets exactly one BreakOutsideLoop (ContinueOutsideLoop).
C10_BreakContinueOnlyInLoop ==
    pc = "analyzed" =>
        \A x \in StatementsOfKind("Break") \cup StatementsOfKind("Continue") :
            LET stmt == program.statements[x[3]]
            IN  IF x[4] THEN ErrorsAt(stmt.span) = {}
                ELSE /\ Cardinality(ErrorsAt(stmt.span)) = 1
                     /\ \A i \in ErrorsAt(stmt.span) :
                           analyzer.errors[i] =
                               [error |-> IF stmt.kind = "Break" THEN "BreakOutsideLoop"
                                          ELSE "ContinueOutsideLoop",
                                span |-> stmt.span]

\* C10 witness: in a function that follows one with a loop, a break that comes
\* right after a while statement in its block has been reported, and the break
\* inside that while has not.
C10_BreakAfterLoopReported ==
    /\ pc = "analyzed"
    /\ Len(program.root_functions) = 2
    /\ \E id \in 1..Len(program.statements) :
          \E block \in {program.statements[id].then_branch, program.statements[id].body} :
              /\ Len(block) = 2
              /\ program.statements[block[1]].kind = "WhileStmt"
              /\ program.statements[block[2]].kind = "Break"
              /\ ErrorsAt(program.statements[block[2]].span) # {}
              /\ \E inner \in Range(program.statements[block[1]].body) :
                    /\ program.statements[inner].kind = "Break"
                    /\ ErrorsAt(program.statements[inner].span) = {}

RECURSIVE LexicalExpressions(_)
\* The expressions of the list and the operands and key expressions nested in them.
LexicalExpressions(expr_ids) ==
    IF expr_ids = <<>> THEN {}
    ELSE LET expr == program.expressions[Head(expr_ids)]
         IN  {Head(expr_ids)}
             \cup LexicalExpressions(SelectSeq(<<expr.expr, expr.left, expr.right>>,
                                               LAMBDA id : id # None) \o expr.pk_exprs)
             \cup LexicalExpressions(Tail(expr_ids))

\* The expressions that occur in one statement (not in the statements nested in it).
StatementExpressions(stmt) ==
    LexicalExpressions(SelectSeq(<<stmt.init_value, stmt.rhs, stmt.condition, stmt.value>>,
                                 LAMBDA id : id # None)
                       \o stmt.pk_exprs
                       \o [i \in 1..Len(stmt.assignments) |-> stmt.assignments[i].rhs])

HopOf(x) == program.hops[program.functions[x[1]].hops[x[2] + 1]]

\* Every field assignment, multi-assignment and table-field-access expression
\* of the program: the node of its hop, its table, its key names and key
\* expressions, and the span its errors are reported at.
TableAccesses ==
    UNION {LET stmt == program.statements[x[3]]
           IN  {[node |-> HopOf(x).resolved_node, table |-> stmt.resolved_table,
                 pk_fields |-> stmt.resolved_pk_fields, pk_exprs |-> stmt.pk_exprs,
                 span |-> stmt.span] : y \in {x} \cap (StatementsOfKind("Assignment")
                                                       \cup StatementsOfKind("MultiAssignment"))}
               \cup {[node |-> HopOf(x).resolved_node,
                      table |-> program.expressions[e].resolved_table,
                      pk_fields |-> program.expressions[e].resolved_pk_fields,
                      pk_exprs |-> program.expressions[e].pk_exprs,
                      span |-> program.expressions[e].span] :
                        e \in {id \in StatementExpressions(stmt) :
                                  program.expressions[id].kind = "TableFieldAccess"}} :
           x \in ProgramStatements}

ResolvedAccesses == {c \in TableAccesses : c.table # None}

\* The analyzer reported `error`, at whatever span.
Reported(error) ==
    \E i \in 1..Len(analyzer.errors) :
        analyzer.errors[i] = error @@ [span |-> analyzer.errors[i].span]

\* The type of a literal.
LiteralType(expr_id) ==
    CASE program.expressions[expr_id].kind = "IntLit" -> "Int"
      [] program.expressions[expr_id].kind = "FloatLit" -> "Float"
      [] program.expressions[expr_id].kind = "StringLit" -> "String"
      [] program.expressions[expr_id].kind = "BoolLit" -> "Bool"
      [] OTHER -> NoType

\* expected == actual || (expected == float && actual == int)
Assignable(expected, actual) == expected = actual \/ (expected = "Float" /\ actual = "Int")

\* C1: in a hop on node N every access to a table of another node is reported
\* as CrossNodeAccess { table, table_node, current_node }, so that a program
\* the analyzer accepts has none.
C1_CrossNodeAccessReported ==
    pc = "analyzed" =>
        \A c \in ResolvedAccesses :
            (c.node # None /\ program.tables[c.table].node # c.node) =>
                /\ result # "Ok"
                /\ Reported([error |-> "CrossNodeAccess",
                                     table |-> program.tables[c.table].name,
                                     table_node |-> program.nodes[program.tables[c.table].node].name,
                                     current_node |-> program.nodes[c.node].name])

\* C7: every access to a resolved table T of N primary keys that provides
\* M # N key pairs is reported as ParseError("Table T requires N ..., but M ...").
C7_KeyCountReported ==
    pc = "analyzed" =>
        \A c \in ResolvedAccesses :
            Len(c.pk_fields) # Len(program.tables[c.table].primary_keys) =>
                Reported([error |-> "ParseError",
                          message |-> [text |-> "requires primary key values",
                                       table |-> program.tables[c.table].name,
                                       required |-> Len(program.tables[c.table].primary_keys),
                                       provided |-> Len(c.pk_fields)]])

\* C8: every key name of an access that resolves to a field outside the
\* table's primary_keys is reported as InvalidPrimaryKey { table, column }.
C8_InvalidKeyReported ==
    pc = "analyzed" =>
        \A c \in ResolvedAccesses :
            \A i \in 1..Len(c.pk_fields) :
                (c.pk_fields[i] # None
                 /\ c.pk_fields[i] \notin Range(program.tables[c.table].primary_keys)) =>
                    Reported([error |-> "InvalidPrimaryKey",
                                      table |-> program.tables[c.table].name,
                                      column |-> program.fields[c.pk_fields[i]].field_name])

\* C9: a key expression whose type is not compatible with the type of the key
\* field it is paired with is reported as TypeMismatch, in reads as well, so
\* that a program the analyzer accepts has none.
C9_KeyTypesChecked ==
    pc = "analyzed" =>
        \A c \in ResolvedAccesses :
            \A i \in 1..Len(c.pk_fields) :
                (/\ c.pk_fields[i] \in Range(program.tables[c.table].primary_keys)
                 /\ LiteralType(c.pk_exprs[i]) # NoType
                 /\ ~Assignable(program.fields[c.pk_fields[i]].field_type,
                                LiteralType(c.pk_exprs[i]))) =>
                    /\ result # "Ok"
                    /\ Reported([error |-> "TypeMismatch",
                                         expected |-> program.fields[c.pk_fields[i]].field_type,
                                         found |-> LiteralType(c.pk_exprs[i])])

\* The declared type and the value of every checked pair: a VarDecl and its
\* initializer, a field assignment, every pair of a multi-assignment.
DeclaredPairs ==
    {[expected |-> program.statements[x[3]].var_type,
      value |-> program.statements[x[3]].init_value,
      span |-> program.statements[x[3]].span] : x \in StatementsOfKind("VarDecl")}
    \cup {[expected |-> program.fields[program.statements[x[3]].resolved_field].field_type,
           value |-> program.statements[x[3]].rhs,
           span |-> program.statements[x[3]].span] :
             x \in {y \in StatementsOfKind("Assignment") :
                       program.statements[y[3]].resolved_field # None}}
    \cup UNION {{[expected |-> program.fields[pair.resolved_field].field_type,
                  value |-> pair.rhs,
                  span |-> program.statements[x[3]].span] :
                    pair \in {p \in Range(program.statements[x[3]].assignments) :
                                 p.resolved_field # None}} :
                x \in StatementsOfKind("MultiAssignment")}

\* C6: a value of type actual given where expected is declared gets a
\* TypeMismatch { expected, found: actual } iff neither expected = actual nor
\* (expected = Float and actual = Int); so for the initializer of a VarDecl,
\* the right-hand side of a field assignment and every pair of a multi-assignment.
C6_CompatibilityDecidesAssignments ==
    pc = "analyzed" =>
        \A d \in DeclaredPairs :
            LiteralType(d.value) # NoType =>
                (Reported([error |-> "TypeMismatch", expected |-> d.expected,
                                   found |-> LiteralType(d.value)])
                 <=> ~Assignable(d.expected, LiteralType(d.value)))

\* A name occurs twice in the list.
HasDuplicates(names) == \E i, j \in 1..Len(names) : i < j /\ names[i] = names[j]

BuildEnded == pc \in {"built", "build_failed"}

\* C3: every table of a built Program has a primary key, and its primary keys
\* are among its fields; a table declaration without a primary field is
\* refused with ParseError("Table T must have at least one primary key") and
\* is registered nowhere.
C3_TablesHavePrimaryKeys ==
    /\ pc = "built" =>
          \A t \in Range(program.tables) :
              t.primary_keys # <<>> /\ Range(t.primary_keys) \subseteq Range(t.fields)
    /\ BuildEnded =>
          \A i \in 1..Len(source.tables) :
              (\A f \in Range(source.tables[i].fields) : ~f.primary) =>
                  /\ \E e \in Range(build_errors) :
                        /\ e.error = "ParseError"
                        /\ e.message.text = "must have at least one primary key"
                        /\ e.message.table = source.tables[i].name
                  /\ \A t \in Range(builder.tables) : t.span # SpanOf("table_declaration", i)
                  /\ Len(builder.root_tables) = Len(builder.tables)
                  /\ Cardinality(DOMAIN builder.table_map) <= Len(builder.tables)

\* C4: in the Program build_program returns no hop has a node, no assignment,
\* multi-assignment or table-field access has a table or a field, every
\* resolved_pk_fields is as long as pk_fields and pk_exprs and holds None
\* only, no resolved_var or resolved_type is set and `resolutions` is empty.
C4_NothingResolvedByBuild ==
    pc = "built" =>
        /\ \A h \in Range(program.hops) : h.resolved_node = None
        /\ \A s \in Range(program.statements) :
              /\ s.kind \in {"Assignment", "MultiAssignment"} =>
                    /\ s.resolved_table = None
                    /\ s.resolved_field = None
                    /\ \A pair \in Range(s.assignments) : pair.resolved_field = None
                    /\ Len(s.resolved_pk_fields) = Len(s.pk_fields)
                    /\ Len(s.resolved_pk_fields) = Len(s.pk_exprs)
                    /\ \A i \in 1..Len(s.resolved_pk_fields) : s.resolved_pk_fields[i] = None
              /\ s.resolved_var = None
        /\ \A e \in Range(program.expressions) :
              /\ e.kind = "TableFieldAccess" =>
                    /\ e.resolved_table = None
                    /\ e.resolved_field = None
                    /\ Len(e.resolved_pk_fields) = Len(e.pk_fields)
                    /\ Len(e.resolved_pk_fields) = Len(e.pk_exprs)
                    /\ \A i \in 1..Len(e.resolved_pk_fields) : e.resolved_pk_fields[i] = None
              /\ e.resolved_type = NoType
        /\ program.resolutions = <<>>
        /\ program.variables = <<>>

\* C4 witness: a built Program with a multi-assignment of two keys and a
\* table-field access that is keyed by another access.
C4_BuiltWithTableAccesses ==
    /\ pc = "built"
    /\ \E s \in Range(program.statements) :
          s.kind = "MultiAssignment" /\ Len(s.pk_fields) = 2 /\ Len(s.resolved_pk_fields) = 2
    /\ \E e \in Range(program.expressions) :
          /\ e.kind = "TableFieldAccess"
          /\ \E k \in Range(e.pk_exprs) : program.expressions[k].kind = "TableFieldAccess"

\* C5: a program that declares a node, table or function name twice fails to
\* build, so that node_map, table_map and function_map of a built Program
\* have one entry for each element of root_nodes, root_tables, root_functions.
C5_TopLevelNamesUnique ==
    /\ pc = "built" =>
          /\ Cardinality(DOMAIN program.node_map) = Len(program.root_nodes)
          /\ Cardinality(DOMAIN program.table_map) = Len(program.root_tables)
          /\ Cardinality(DOMAIN program.function_map) = Len(program.root_functions)
    /\ BuildEnded =>
          ((\/ HasDuplicates(source.nodes)
            \/ HasDuplicates([i \in 1..Len(source.tables) |-> source.tables[i].name])
            \/ HasDuplicates([i \in 1..Len(source.functions) |-> source.functions[i].name]))
           => build_result = "Err")


\* C11: for every function, MissingReturn(name) is reported (once, at the
\* function) iff its return type is not void and none of its hops contains a
\* return statement at any depth; the functions analyzed before it do not matter.
C11_MissingReturnIffNoReturn ==
    pc = "analyzed" =>
        \A f \in Range(program.root_functions) :
            LET func == program.functions[f]
                returns == {x \in StatementsOfKind("Return") : x[1] = f}
                reports == {i \in ErrorsAt(func.span) : analyzer.errors[i].error = "MissingReturn"}
            IN  /\ reports # {} <=> (func.return_type # "Void" /\ returns = {})
                /\ Cardinality(reports) <= 1
                /\ \A i \in reports : analyzer.errors[i].function = func.name

\* C11 witness: a typed function without a return has been reported although
\* the function analyzed before it has a return.
C11_ReturnLessAfterReturning ==
    /\ pc = "analyzed"
    /\ Len(program.root_functions) = 2
    /\ \E x \in StatementsOfKind("Return") : x[1] = program.root_functions[1]
    /\ ~\E x \in StatementsOfKind("Return") : x[1] = program.root_functions[2]
    /\ program.functions[program.root_functions[2]].return_type # "Void"
    /\ ErrorsAt(program.functions[program.root_functions[2]].span) # {}

\* C12: a return with a value in a void function gets UnexpectedReturnValue; a
\* return without a value in a typed function gets MissingReturnValue; a return
\* whose (literal) value is not compatible with the declared type gets
\* TypeMismatch { expected, found }; every other return gets no error.
C12_ReturnMatchesDeclaredType ==
    pc = "analyzed" =>
        \A x \in StatementsOfKind("Return") :
            LET stmt == program.statements[x[3]]
                declared == program.functions[x[1]].return_type
                found == IF stmt.has_value THEN LiteralType(stmt.value) ELSE NoType
                expected ==
                    CASE declared = "Void" /\ stmt.has_value ->
                            {[error |-> "UnexpectedReturnValue", span |-> stmt.span]}
                      [] declared # "Void" /\ ~stmt.has_value ->
                            {[error |-> "MissingReturnValue", span |-> stmt.span]}
                      [] declared # "Void" /\ found # NoType /\ ~Assignable(declared, found) ->
                            {[error |-> "TypeMismatch", expected |-> declared, found |-> found,
                              span |-> stmt.span]}
                      [] OTHER -> {}
            IN  /\ {analyzer.errors[i] : i \in ErrorsAt(stmt.span)} = expected
                /\ Cardinality(ErrorsAt(stmt.span)) = Cardinality(expected)

\* C12 witness: `return 1.5;` inside a while body of an int function has been
\* reported as a TypeMismatch, and the `return 1;` of the int function before
\* it has not.
C12_FloatReturnedFromIntFunction ==
    /\ pc = "analyzed"
    /\ \E x \in StatementsOfKind("Return") :
          /\ x[4]
          /\ program.functions[x[1]].return_type = "Int"
          /\ program.statements[x[3]].has_value
          /\ LiteralType(program.statements[x[3]].value) = "Float"
          /\ \E i \in ErrorsAt(program.statements[x[3]].span) :
                analyzer.errors[i].error = "TypeMismatch"
    /\ \E x \in StatementsOfKind("Return") :
          /\ x[1] = program.root_functions[1]
          /\ Len(program.root_functions) = 2
          /\ ErrorsAt(program.statements[x[3]].span) = {}


\* The type the operator rules give `op` on an operand of type t (NoType: refused).
UnaryResult(op, t) ==
    CASE op = "Not" -> IF t = "Bool" THEN "Bool" ELSE NoType
      [] op = "Neg" -> IF t \in {"Int", "Float"} THEN t ELSE NoType

\* The type the operator rules give `op` on operands of types l and r.
BinaryResult(op, l, r) ==
    CASE op \in {"Add", "Sub", "Mul", "Div"} ->
            IF {l, r} \subseteq {"Int", "Float"}
            THEN (IF "Float" \in {l, r} THEN "Float" ELSE "Int")
            ELSE NoType
      [] op \in {"Lt", "Lte", "Gt", "Gte"} ->
            IF {l, r} \subseteq {"Int", "Float"} THEN "Bool" ELSE NoType
      [] op \in {"And", "Or"} -> IF l = "Bool" /\ r = "Bool" THEN "Bool" ELSE NoType

\* The unary operations on a literal and the binary operations (equality apart) on two literals.
LiteralOperations ==
    {id \in 1..Len(program.expressions) :
        LET expr == program.expressions[id]
        IN  \/ expr.kind = "UnaryOp" /\ LiteralType(expr.expr) # NoType
            \/ /\ expr.kind = "BinaryOp"
               /\ expr.op \notin {"Eq", "Neq"}
               /\ LiteralType(expr.left) # NoType
               /\ LiteralType(expr.right) # NoType}

\* The type of a literal operation by the operator rules.
OperationResult(id) ==
    LET expr == program.expressions[id]
    IN  IF expr.kind = "UnaryOp" THEN UnaryResult(expr.op, LiteralType(expr.expr))
        ELSE BinaryResult(expr.op, LiteralType(expr.left), LiteralType(expr.right))

\* The InvalidUnaryOp / InvalidBinaryOp errors reported at the span of an expression.
OperatorErrorsAt(id) ==
    {i \in ErrorsAt(program.expressions[id].span) :
        analyzer.errors[i].error \in {"InvalidUnaryOp", "InvalidBinaryOp"}}

\* C13: for `!`, unary `-`, `+ - * /`, `< <= > >=`, `&& ||` on operands of
\* every type, check_expression yields the type of the operator rules; where the
\* rules give no type it yields none and exactly one InvalidUnaryOp /
\* InvalidBinaryOp naming the operand types, else no error.
C13_OperatorsTypedByRule ==
    build_result = "Ok" =>
        \A id \in LiteralOperations :
            LET expr == program.expressions[id]
                checked == check_expression(SemanticAnalyzer_new, id)
            IN  /\ checked.ty = OperationResult(id)
                /\ Len(checked.a.errors) = IF OperationResult(id) = NoType THEN 1 ELSE 0
                /\ \A i \in 1..Len(checked.a.errors) :
                      /\ checked.a.errors[i].span = expr.span
                      /\ IF expr.kind = "UnaryOp"
                         THEN /\ checked.a.errors[i].error = "InvalidUnaryOp"
                              /\ checked.a.errors[i].operand = LiteralType(expr.expr)
                         ELSE checked.a.errors[i] =
                                  [error |-> "InvalidBinaryOp", op |-> expr.op,
                                   left |-> LiteralType(expr.left),
                                   right |-> LiteralType(expr.right), span |-> expr.span]

\* C13 witness: the analysis has refused `true && 1` with one InvalidBinaryOp.
C13_LogicOnIntRefused ==
    /\ pc = "analyzed"
    /\ \E id \in LiteralOperations :
          /\ program.expressions[id].op = "And"
          /\ LiteralType(program.expressions[id].left) = "Bool"
          /\ LiteralType(program.expressions[id].right) = "Int"
          /\ Cardinality(OperatorErrorsAt(id)) = 1

\* C14: `==` and `!=` between an int operand and a float operand are accepted,
\* whichever operand is on the left.
C14_MixedEqualityAccepted ==
    pc = "analyzed" =>
        \A id \in 1..Len(program.expressions) :
            LET expr == program.expressions[id]
            IN  (/\ expr.kind = "BinaryOp"
                 /\ expr.op \in {"Eq", "Neq"}
                 /\ {LiteralType(expr.left), LiteralType(expr.right)} = {"Int", "Float"})
                => /\ OperatorErrorsAt(id) = {}
                   /\ check_expression(SemanticAnalyzer_new, id).ty = "Bool"

\* C15: an assignment to a declared local whose right-hand side is not
\* compatible with the declared type of the variable is reported as a TypeMismatch.
C15_VarAssignmentTypeChecked ==
    pc = "analyzed" =>
        \A x \in StatementsOfKind("VarAssignment") :
            LET stmt == program.statements[x[3]]
            IN  (/\ stmt.resolved_var # None
                 /\ LiteralType(stmt.rhs) # NoType
                 /\ ~Assignable(program.variables[stmt.resolved_var].ty, LiteralType(stmt.rhs)))
                => Reported([error |-> "TypeMismatch",
                             expected |-> program.variables[stmt.resolved_var].ty,
                             found |-> LiteralType(stmt.rhs)])

\* The type of a condition that is a literal or a literal operation.
ConditionType(id) ==
    IF LiteralType(id) # NoType THEN LiteralType(id)
    ELSE IF id \in LiteralOperations THEN OperationResult(id)
    ELSE NoType

\* The statements directly inside the branches / the body of an if or a while.
NestedIn(stmt) == Range(stmt.then_branch) \cup Range(stmt.else_branch) \cup Range(stmt.body)

\* C16: an if or a while whose condition has a type other than Bool gets exactly
\* one InvalidCondition(found type) at the condition (none when the type is
\* Bool), and the statements of its branches / body are checked all the same: a
\* declaration in error inside them gets its TypeMismatch.
C16_InvalidConditionReported ==
    pc = "analyzed" =>
        \A x \in StatementsOfKind("IfStmt") \cup StatementsOfKind("WhileStmt") :
            LET stmt == program.statements[x[3]]
                found == ConditionType(stmt.condition)
                reports == {i \in ErrorsAt(program.expressions[stmt.condition].span) :
                               analyzer.errors[i].error = "InvalidCondition"}
            IN  /\ found \notin {NoType, "Bool"} =>
                      /\ Cardinality(reports) = 1
                      /\ \A i \in reports : analyzer.errors[i].found = found
                /\ found = "Bool" => reports = {}
                /\ \A s \in NestedIn(stmt) :
                      (/\ program.statements[s].kind = "VarDecl"
                       /\ ~Assignable(program.statements[s].var_type,
                                      LiteralType(program.statements[s].init_value)))
                      => Cardinality(ErrorsAt(program.statements[s].span)) = 1

\* C16 witness: a while on an int condition has got InvalidCondition(Int), and
\* the declaration in error in its body has got its error.
C16_IntConditionOfWhile ==
    /\ pc = "analyzed"
    /\ \E x \in StatementsOfKind("WhileStmt") :
          LET stmt == program.statements[x[3]]
          IN  /\ ConditionType(stmt.condition) = "Int"
              /\ \E i \in ErrorsAt(program.expressions[stmt.condition].span) :
                    analyzer.errors[i].error = "InvalidCondition"
              /\ \E s \in NestedIn(stmt) : ErrorsAt(program.statements[s].span) # {}

\* C17: the analysis returns Ok iff it reported nothing, and an error in one
\* operand of a binary operator does not keep the errors of the other operand
\* from being reported: whatever check_expression reports for an operand on
\* its own is among the errors of the run.
C17_SiblingErrorsReported ==
    pc = "analyzed" =>
        /\ result = "Ok" <=> analyzer.errors = <<>>
        /\ \A x \in ProgramStatements :
              \A id \in StatementExpressions(program.statements[x[3]]) :
                  program.expressions[id].kind = "BinaryOp" =>
                      \A operand \in {program.expressions[id].left, program.expressions[id].right} :
                          Range(check_expression(SemanticAnalyzer_new, operand).a.errors)
                              \subseteq Range(analyzer.errors)

\* The calls of analyze_program that have returned.
Returned == {i \in 1..Len(history) : history[i].result # "none"}

\* C18: analyze_program leaves the Program as it got it, two calls on the same
\* Program return the same result and the same errors, and a Program that was
\* accepted once is accepted by every later call.
C18_AnalysisReadOnlyAndIdempotent ==
    /\ \A i \in Returned : history[i].after = history[i].program
    /\ pc \in {"check_function", "check_hop_block", "check_statement", "end_hop_block",
               "end_function", "analyze_return"} => history[Len(history)].program = program
    /\ \A i \in Returned : \A j \in Returned :
          /\ history[i].program = history[j].program =>
                /\ history[i].result = history[j].result
                /\ history[i].errors = history[j].errors
          /\ i < j /\ history[i].result = "Ok" => history[j].result = "Ok"

\* C18 witness: three calls on one Program have each returned the same
\* non-empty list of errors.
C18_RejectedThreeTimes ==
    /\ Returned = 1..(MaxCalls + 1)
    /\ \A i \in Returned :
          /\ history[i].program = history[1].program
          /\ history[i].result = "Err"
          /\ history[i].errors # <<>>

\* C19: after analyze_program_with_types returned Ok, every unary operation,
\* binary operation and table-field access of the expression arena has a
\* resolved_type.
C19_OperationsTyped ==
    pc = "inferred" =>
        \A id \in 1..Len(program.expressions) :
            program.expressions[id].kind \in {"UnaryOp", "BinaryOp", "TableFieldAccess"}
                => program.expressions[id].resolved_type # NoType

\* C20: every run of infer_types makes at most three passes and ends with a
\* pass that changes nothing; it overwrites no slot that already holds a
\* type, and a run on the output of an earlier run changes no slot at all.
C20_InferenceReachesFixedPoint ==
    \A k \in 1..Len(inference) :
        LET run == inference[k]
        IN  /\ run.passes <= 3
            /\ ~run.changed
            /\ run.settled
            /\ \A id \in 1..Len(run.before.expressions) :
                  run.before.expressions[id].resolved_type # NoType =>
                      run.after.expressions[id].resolved_type =
                          run.before.expressions[id].resolved_type
            /\ k > 1 => run.after = run.before

\* C20 witness: a first run needed a second pass to see that nothing changes
\* any more, and a later run on its output stopped after one.
C20_SecondRunOnTypedProgram ==
    /\ Len(inference) >= 2
    /\ inference[1].passes = 2
    /\ inference[2].passes = 1
    /\ \E id \in 1..Len(inference[2].before.expressions) :
          inference[2].before.expressions[id].resolved_type # NoType

\* C21: type inference runs only on a Program the analysis has just accepted;
\* when the analysis reports errors the call returns exactly that non-empty
\* list, the Program stays as the analysis got it and no resolved_type is set.
C21_InferenceOnlyAfterSuccess ==
    /\ \A k \in 1..Len(inference) :
          \E i \in Returned : history[i].result = "Ok" /\ history[i].after = inference[k].before
    /\ (pc = "analyzed" /\ result = "Err") =>
          /\ history[Len(history)].errors = analyzer.errors
          /\ analyzer.errors # <<>>
          /\ program = history[Len(history)].program
          /\ \A e \in Range(program.expressions) : e.resolved_type = NoType

\* C21 witness: the analysis has refused a Program that holds an untyped unary
\* operation, and no inference has run.
C21_RefusedWithUntypedOperation ==
    /\ pc = "analyzed"
    /\ result = "Err"
    /\ inference = <<>>
    /\ \E e \in Range(program.expressions) : e.kind = "UnaryOp" /\ e.resolved_type = NoType

\* Name resolution has run on p: every hop on a declared node has its
\* resolved_node, every assignment, multi-assignment and table-field access
\* of a declared table has its resolved_table.
NamesResolved(p) ==
    /\ \A h \in Range(p.hops) : h.node_name \in DOMAIN p.node_map => h.resolved_node # None
    /\ \A s \in Range(p.statements) :
          (s.kind \in {"Assignment", "MultiAssignment"} /\ s.table_name \in DOMAIN p.table_map)
              => s.resolved_table # None
    /\ \A e \in Range(p.expressions) :
          (e.kind = "TableFieldAccess" /\ e.table_name \in DOMAIN p.table_map)
              => e.resolved_table # None

\* C22: the components run in sequence, building, then name resolution, then
\* analysis: every Program analyze_program is called on is one name resolution
\* has run on.
C22_AnalysisFollowsResolution ==
    \A i \in 1..Len(history) : NamesResolved(history[i].program)

\* The (table, field) pairs a hop writes: the targets of its field assignments
\* and of the pairs of its multi-assignments, at any depth.
HopWrites(hop_id) ==
    UNION {LET stmt == program.statements[sw[1]]
           IN  CASE stmt.kind = "Assignment" -> {<<stmt.table_name, stmt.field_name>>}
                 [] stmt.kind = "MultiAssignment" ->
                       {<<stmt.table_name, pair.field_name>> : pair \in Range(stmt.assignments)}
                 [] OTHER -> {} :
           sw \in LexicalStatements(program.hops[hop_id].statements, FALSE)}

\* The (table, field) pairs a hop reads: its table-field accesses, wherever they occur.
HopReads(hop_id) ==
    UNION {{<<program.expressions[e].table_name, program.expressions[e].field_name>> :
               e \in {id \in StatementExpressions(program.statements[sw[1]]) :
                         program.expressions[id].kind = "TableFieldAccess"}} :
           sw \in LexicalStatements(program.hops[hop_id].statements, FALSE)}

\* Two hops have accesses to one (table, field) of which at least one is a write.
Conflicting(h1, h2) ==
    \/ HopWrites(h1) \cap (HopReads(h2) \cup HopWrites(h2)) # {}
    \/ HopWrites(h2) \cap HopReads(h1) # {}

\* The function whose hop list holds the hop.
FunctionOfHop(hop_id) ==
    CHOOSE f \in Range(program.root_functions) : hop_id \in Range(program.functions[f].hops)

\* The C-edges between the vertices a and b.
CEdgesBetween(a, b) ==
    {i \in 1..Len(sc_graph.edges) :
        sc_graph.edges[i].edge_type = "C" /\ {sc_graph.edges[i].v1, sc_graph.edges[i].v2} = {a, b}}

\* C23: the vertices of the SC-graph are the hops of the Program; two hops are
\* joined by a C-edge iff they belong to different functions and have accesses
\* to one (table, field) of which at least one is a write; no pair of hops has
\* more than one C-edge, and stats() counts one C-edge for every such pair.
C23_ConflictEdgesBetweenFunctions ==
    pc = "output" =>
        LET n == Len(sc_graph.hops)
            hop(v) == sc_graph.hops[v].hop
        IN  /\ n = Len(program.hops)
            /\ {hop(v) : v \in 1..n} = 1..Len(program.hops)
            /\ \A a \in 1..n : CEdgesBetween(a, a) = {}
            /\ \A a \in 1..n : \A b \in (a + 1)..n :
                  /\ Cardinality(CEdgesBetween(a, b)) <= 1
                  /\ CEdgesBetween(a, b) # {} <=>
                        /\ FunctionOfHop(hop(a)) # FunctionOfHop(hop(b))
                        /\ Conflicting(hop(a), hop(b))
            /\ output.stats[1] = n
            /\ output.stats[3] =
                  Cardinality({ab \in (1..n) \X (1..n) :
                                  ab[1] < ab[2] /\ CEdgesBetween(ab[1], ab[2]) # {}})

\* C23 witness: a graph in which a hop that reads T.v has a C-edge to a hop of
\* another function that writes T.v in a multi-assignment and none to a hop of
\* another function that reads T.v as well, and a hop that writes T.v has none
\* to a hop of its own function that reads T.v.
C23_ReadersAndWriters ==
    /\ pc = "output"
    /\ \E a, b, c \in 1..Len(sc_graph.hops) :
          /\ HopWrites(sc_graph.hops[a].hop) = {} /\ HopReads(sc_graph.hops[a].hop) = {<<"T", "v">>}
          /\ HopWrites(sc_graph.hops[b].hop) = {<<"T", "v">>, <<"T", "w">>}
          /\ HopWrites(sc_graph.hops[c].hop) = {} /\ HopReads(sc_graph.hops[c].hop) = {<<"T", "v">>}
          /\ sc_graph.hops[a].function # sc_graph.hops[c].function
          /\ CEdgesBetween(a, b) # {}
          /\ CEdgesBetween(a, c) = {}
    /\ \E a, b \in 1..Len(sc_graph.hops) :
          /\ a # b
          /\ sc_graph.hops[a].function = sc_graph.hops[b].function
          /\ <<"T", "v">> \in HopWrites(sc_graph.hops[a].hop) \cap HopReads(sc_graph.hops[b].hop)
          /\ CEdgesBetween(a, b) = {}

\* The types of the edges of the graph between two vertices.
TypesBetween(a, b) ==
    {sc_graph.edges[i].edge_type :
        i \in {k \in 1..Len(sc_graph.edges) : {sc_graph.edges[k].v1, sc_graph.edges[k].v2} = {a, b}}}

\* The vertex after position i of a cycle.
After(c, i) == c[(i % Len(c)) + 1]

\* d is c rotated, or c reflected and rotated.
SameCycle(c, d) ==
    /\ Len(c) = Len(d)
    /\ \E r \in 0..(Len(c) - 1) :
          \/ \A k \in 1..Len(c) : d[k] = c[((r + k - 1) % Len(c)) + 1]
          \/ \A k \in 1..Len(c) : d[k] = c[((r + Len(c) - k) % Len(c)) + 1]

\* C24: every cycle find_mixed_cycles returns is a simple cycle of the graph
\* (three or more distinct vertices, each joined to the next and the last to
\* the first) with at least one S-edge and at least one C-edge, and no two of
\* the returned cycles are the same up to rotation and reflection.
C24_MixedCyclesOnce ==
    pc = "output" =>
        LET cycles == output.mixed_cycles
        IN  /\ \A n \in 1..Len(cycles) :
                  LET c == cycles[n]
                  IN  /\ Len(c) >= 3
                      /\ \A i \in 1..Len(c) : c[i] \in 1..Len(sc_graph.hops)
                      /\ \A i \in 1..Len(c) : \A j \in 1..Len(c) : i # j => c[i] # c[j]
                      /\ \A i \in 1..Len(c) : TypesBetween(c[i], After(c, i)) # {}
                      /\ \E i \in 1..Len(c) : "S" \in TypesBetween(c[i], After(c, i))
                      /\ \E i \in 1..Len(c) : "C" \in TypesBetween(c[i], After(c, i))
            /\ \A n \in 1..Len(cycles) : \A k \in 1..Len(cycles) :
                  n # k => ~SameCycle(cycles[n], cycles[k])

\* C24 witness: two functions of two hops each; the mixed cycle through all
\* four hops has been returned, and a cycle of three hops as well.
C24_FourCycleReturned ==
    /\ pc = "output"
    /\ Len(sc_graph.hops) = 4
    /\ \E n \in 1..Len(output.mixed_cycles) : Len(output.mixed_cycles[n]) = 4
    /\ \E n \in 1..Len(output.mixed_cycles) : Len(output.mixed_cycles[n]) = 3

\* The errors reported at the spans of the expressions of a statement.
ExpressionErrors(stmt) ==
    UNION {ErrorsAt(program.expressions[id].span) : id \in StatementExpressions(stmt)}

\* The statements that follow statement `id` in its block.
FollowersOf(id) ==
    UNION {{block[j] : j \in {k \in 1..Len(block) : \E i \in 1..(k - 1) : block[i] = id}} :
           block \in {program.hops[h].statements : h \in 1..Len(program.hops)}
                     \cup UNION {{program.statements[s].then_branch,
                                  program.statements[s].else_branch,
                                  program.statements[s].body} : s \in 1..Len(program.statements)}}

\* C25: a field assignment or multi-assignment whose resolved_table is None
\* gets exactly one error, UndeclaredTable(its table name); none of its key
\* expressions and right-hand sides is checked, so nothing is reported for
\* them; the statements after it are checked: a declaration in error or a
\* break outside a loop that follows it gets its error.
C25_UnresolvedTableSkipsOneStatement ==
    pc = "analyzed" =>
        \A x \in StatementsOfKind("Assignment") \cup StatementsOfKind("MultiAssignment") :
            LET stmt == program.statements[x[3]]
            IN  stmt.resolved_table = None =>
                    /\ Cardinality(ErrorsAt(stmt.span)) = 1
                    /\ \A i \in ErrorsAt(stmt.span) :
                          analyzer.errors[i] = [error |-> "UndeclaredTable",
                                                name |-> stmt.table_name, span |-> stmt.span]
                    /\ ExpressionErrors(stmt) = {}
                    /\ \A s \in FollowersOf(x[3]) :
                          LET next == program.statements[s]
                          IN  /\ (next.kind = "VarDecl"
                                  /\ ~Assignable(next.var_type, LiteralType(next.init_value)))
                                 => Cardinality(ErrorsAt(next.span)) = 1
                              /\ (next.kind = "Break" /\ ~x[4])
                                 => Cardinality(ErrorsAt(next.span)) = 1
                              /\ (next.kind \in {"Assignment", "MultiAssignment"}
                                  /\ next.resolved_table = None)
                                 => Cardinality(ErrorsAt(next.span)) = 1

\* C25 witness: an assignment of `-true` to a field of a table that is not
\* resolved has got its UndeclaredTable and nothing else, and the declaration
\* in error after it has got its TypeMismatch.
C25_UnresolvedThenBadDecl ==
    /\ pc = "analyzed"
    /\ \E x \in StatementsOfKind("Assignment") :
          LET stmt == program.statements[x[3]]
          IN  /\ stmt.resolved_table = None
              /\ program.expressions[stmt.rhs].kind = "UnaryOp"
              /\ Cardinality(ErrorsAt(stmt.span)) = 1
              /\ ErrorsAt(program.expressions[stmt.rhs].span) = {}
              /\ \E s \in FollowersOf(x[3]) :
                    /\ program.statements[s].kind = "VarDecl"
                    /\ \E i \in ErrorsAt(program.statements[s].span) :
                          analyzer.errors[i].error = "TypeMismatch"

RECURSIVE ExpressionsPreOrder(_)
\* The spans of the expressions `ids` and of their operands and key
\* expressions, every expression before the ones inside it.
ExpressionsPreOrder(ids) ==
    IF ids = <<>> THEN <<>>
    ELSE LET expr == program.expressions[Head(ids)]
         IN  <<expr.span>>
             \o ExpressionsPreOrder(expr.pk_exprs
                                    \o SelectSeq(<<expr.expr, expr.left, expr.right>>,
                                                 LAMBDA id : id # None))
             \o ExpressionsPreOrder(Tail(ids))

RECURSIVE StatementsPreOrder(_)
\* The spans of the statements `ids`: a statement, then its expressions, then
\* the statements of its branches or body.
StatementsPreOrder(ids) ==
    IF ids = <<>> THEN <<>>
    ELSE LET stmt == program.statements[Head(ids)]
         IN  <<stmt.span>>
             \o ExpressionsPreOrder(
                    stmt.pk_exprs
                    \o SelectSeq(<<stmt.init_value, stmt.rhs, stmt.condition, stmt.value>>,
                                 LAMBDA id : id # None)
                    \o [i \in 1..Len(stmt.assignments) |-> stmt.assignments[i].rhs])
             \o StatementsPreOrder(stmt.then_branch)
             \o StatementsPreOrder(stmt.else_branch)
             \o StatementsPreOrder(stmt.body)
             \o StatementsPreOrder(Tail(ids))

RECURSIVE HopsPreOrder(_)
HopsPreOrder(hop_ids) ==
    IF hop_ids = <<>> THEN <<>>
    ELSE <<program.hops[Head(hop_ids)].span>>
         \o StatementsPreOrder(program.hops[Head(hop_ids)].statements)
         \o HopsPreOrder(Tail(hop_ids))

RECURSIVE FunctionsPreOrder(_)
\* The spans of the constructs of the program in pre-order: a function, its
\* hops in order, the statements of a hop in order, the expressions of a statement.
FunctionsPreOrder(func_ids) ==
    IF func_ids = <<>> THEN <<>>
    ELSE <<program.functions[Head(func_ids)].span>>
         \o HopsPreOrder(program.functions[Head(func_ids)].hops)
         \o FunctionsPreOrder(Tail(func_ids))

\* The place of a construct in the traversal.
TraversalPosition(span) ==
    LET order == FunctionsPreOrder(program.root_functions)
    IN  CHOOSE i \in 1..Len(order) : order[i] = span

\* C26: the errors of the analysis are listed in the pre-order of the
\* constructs they are attached to: no error comes after an error of a
\* construct that is later in the traversal functions, hops, statements, expressions.
C26_ErrorsInTraversalOrder ==
    pc = "analyzed" =>
        \A i \in 1..Len(analyzer.errors) : \A j \in 1..Len(analyzer.errors) :
            i < j => TraversalPosition(analyzer.errors[i].span)
                        <= TraversalPosition(analyzer.errors[j].span)

\* The operands of a unary or binary operation.
Operands(expr) == SelectSeq(<<expr.expr, expr.left, expr.right>>, LAMBDA id : id # None)

\* C27: a run of type inference writes the resolved_type of a unary or binary
\* operation only when every operand of it has a type, and the type it writes
\* is the type check_expression gives the operation.
C27_InferenceFollowsAnalyzerRules ==
    pc = "inferred" =>
        LET run == inference[Len(inference)]
        IN  \A id \in 1..Len(run.after.expressions) :
                (/\ run.after.expressions[id].kind \in {"UnaryOp", "BinaryOp"}
                 /\ run.before.expressions[id].resolved_type = NoType
                 /\ run.after.expressions[id].resolved_type # NoType)
                => /\ \A operand \in Range(Operands(run.after.expressions[id])) :
                          get_expression_type(run.after, operand) # NoType
                   /\ run.after.expressions[id].resolved_type
                          = check_expression(SemanticAnalyzer_new, id).ty

\* p with the resolved_type slot of every unary operation, binary operation
\* and table-field access emptied.
WithoutInferredTypes(p) ==
    [p EXCEPT !.expressions =
        [id \in DOMAIN p.expressions |->
            IF p.expressions[id].kind \in {"UnaryOp", "BinaryOp", "TableFieldAccess"}
            THEN [p.expressions[id] EXCEPT !.resolved_type = NoType]
            ELSE p.expressions[id]]]

\* C28: a run of type inference changes nothing of the Program but the
\* resolved_type slots of unary operations, binary operations and table-field
\* accesses: literals, identifiers, statements, declarations, the resolved
\* table, field, key and node slots, the resolutions map and the length of
\* every arena are what they were.
C28_InferenceWritesOnlyTypeSlots ==
    \A k \in 1..Len(inference) :
        /\ WithoutInferredTypes(inference[k].after) = WithoutInferredTypes(inference[k].before)
        /\ \A arena \in {"functions", "hops", "statements", "expressions", "variables",
                         "nodes", "tables", "fields"} :
              Len(inference[k].after[arena]) = Len(inference[k].before[arena])

\* C28 witness: a run of inference has written the type of an operation whose
\* operand is a literal or an identifier.
C28_OperationOverLiteralTyped ==
    \E k \in 1..Len(inference) :
        \E id \in 1..Len(inference[k].after.expressions) :
            /\ inference[k].after.expressions[id].kind \in {"UnaryOp", "BinaryOp"}
            /\ inference[k].before.expressions[id].resolved_type = NoType
            /\ inference[k].after.expressions[id].resolved_type # NoType
            /\ \E operand \in Range(Operands(inference[k].after.expressions[id])) :
                  inference[k].after.expressions[operand].kind
                      \in {"IntLit", "FloatLit", "StringLit", "BoolLit", "Ident"}

\* C29: when analysis has returned, every table-touching construct whose
\* table and key names are all resolved and that got no error names each
\* primary key of its table exactly once: none is missing, none is repeated.
C29_AcceptedKeysCoverPrimaryKey ==
    pc = "analyzed" =>
        \A c \in ResolvedAccesses :
            (/\ \A i \in DOMAIN c.pk_fields : c.pk_fields[i] # None
             /\ ErrorsAt(c.span) = {})
            => \A key \in Range(program.tables[c.table].primary_keys) :
                   Cardinality({i \in DOMAIN c.pk_fields : c.pk_fields[i] = key}) = 1

\* C30: whatever build_program was called with before on the same
\* AstBuilder, calls that failed included, a call returns what the same parse
\* tree gives on a builder that was never used.
C30_BuilderReusable ==
    \A i \in 1..Len(returned) :
        returned[i].value = build_program_from_pair(returned[i].source)

====
